---------------------------- MODULE Spec2Model ----------------------------
(***************************************************************************)
(* Model of the MRP calculator of src/app.py: the code normalizer          *)
(* (preserve_8char_code) and the FIFO allocation run of tab 5.             *)
(*                                                                         *)
(* Quantities are fixed-point integers counting 10^-Prec kg ("ticks").     *)
(* The quantities the model draws are multiples of 0.5 kg, for which the   *)
(* binary floating point arithmetic of the program (round, //, *, -, >=)   *)
(* is exact, so decimal arithmetic on ticks computes what the code does.   *)
(* Codes are sequences of one-character strings.                           *)
(***************************************************************************)
EXTENDS Integers, Sequences, FiniteSets, TLC

----------------------------------------------------------------------------
(* Bounds of the model *)

MaxCodeLen == 9          \* longest raw code string handed to the normalizer
MaxStockLots == 2        \* stock of the first RM goes up to MaxStockLots x 30 kg
MaxTargetBatches == 2    \* expected capacities go up to MaxTargetBatches x 25 kg
MaxRuns == 2             \* script runs of the re-run specification
MaxStockTenths == 10     \* decimal stock goes up to MaxStockTenths x 0.1 kg
MaxDecimalBatches == 5   \* its expected capacities up to MaxDecimalBatches x 25 kg
MaxWidgetKey == 2        \* largest key the FG multiselect gets
MaxDilutions == 2        \* Apply Dilution Rules clicks on one modified table

(* Program constants *)

CodeWidth == 8           \* width of a normalized code
BatchKg == 25            \* one batch, in kg
Prec == 4                \* decimal digits kept by a tick
MaxDecimalPlaces == 6    \* largest decimal precision the settings accept
DefaultDecimalPlaces == 3

----------------------------------------------------------------------------
(* Arithmetic *)

Min2(a, b) == IF a <= b THEN a ELSE b
Max2(a, b) == IF a >= b THEN a ELSE b

RECURSIVE Pow10(_)
Pow10(n) == IF n <= 0 THEN 1 ELSE 10 * Pow10(n - 1)

RECURSIVE Pow2(_)
Pow2(n) ==
    IF n <= 0 THEN 1
    ELSE IF n = 1 THEN 2
    ELSE Pow2(n \div 2) * Pow2(n - n \div 2)

TicksPerKg == Pow10(Prec)
Kg(n) == n * TicksPerKg
HalfKg(n) == n * (TicksPerKg \div 2)
TenthKg(n) == n * (TicksPerKg \div 10)

\* min() of a non-empty sequence of integers
RECURSIVE SeqMin(_)
SeqMin(s) == IF Len(s) = 1 THEN s[1] ELSE Min2(s[1], SeqMin(Tail(s)))

\* x to the multiple q * step or (q + 1) * step that is nearer, r = x - q * step;
\* a tie goes to the even multiple
NearestEven(q, r, step) ==
    IF 2 * r < step THEN q * step
    ELSE IF 2 * r > step THEN (q + 1) * step
    ELSE IF q % 2 = 0 THEN q * step ELSE (q + 1) * step

RoundToStep(x, step) == NearestEven(x \div step, x % step, step)

\* Python round(x, dp) on a value of Prec decimals: to the nearest multiple
\* of 10^(Prec-dp) ticks, a tie going to the even multiple
PyRound(x, dp) ==
    IF dp >= Prec THEN x ELSE RoundToStep(x, Pow10(Prec - dp))

----------------------------------------------------------------------------
(* Floats: a quantity of t ticks is held as the double nearest to the      *)
(* decimal t / TicksPerKg; the difference decides a division that comes    *)
(* out even and a comparison of equal decimals                              *)

\* a * b modulo m for m below 2^21, eight bits of b at a time to keep the
\* intermediate values small
RECURSIVE MulMod(_, _, _)
MulMod(a, b, m) ==
    IF b = 0 THEN 0
    ELSE (256 * MulMod(a, b \div 256, m) + (b % 256) * (a % m)) % m

\* 2^e modulo m for e < 90, from three powers of at most 30 bits
Pow2Mod(e, m) ==
    MulMod(MulMod(Pow2(Min2(e, 30)) % m, Pow2(Min2(e - 30, 30)) % m, m),
           Pow2(e - 60) % m, m)

\* the j with 2^j <= t / TicksPerKg < 2^(j+1), for t >= TicksPerKg
RECURSIVE ExpUp(_)
ExpUp(t) == IF t < 2 * TicksPerKg THEN 0 ELSE 1 + ExpUp(t \div 2)

\* the n with 2^-n <= t / TicksPerKg < 2^(1-n), for 0 < t < TicksPerKg
RECURSIVE ExpDown(_)
ExpDown(t) == IF t >= TicksPerKg THEN 0 ELSE 1 + ExpDown(2 * t)

\* the e for which the doubles next to t ticks are 2^-e apart: a double
\* has 52 bits after its leading one
BinExp(t) == IF t >= TicksPerKg THEN 52 - ExpUp(t) ELSE 52 + ExpDown(t)

\* t * 2^e modulo 2 * TicksPerKg: what t / TicksPerKg lacks to an even
\* multiple of 2^-e, in units of 2^-e / TicksPerKg
BinRem(t) ==
    MulMod(Pow2Mod(BinExp(t), 2 * TicksPerKg), t, 2 * TicksPerKg)

\* the double of t ticks minus the decimal, in units of 2^-e / TicksPerKg:
\* the decimal goes to the nearest multiple of 2^-e, a tie to the even one
BinErrOn(r) ==
    IF 2 * (r % TicksPerKg) < TicksPerKg THEN -(r % TicksPerKg)
    ELSE IF 2 * (r % TicksPerKg) > TicksPerKg THEN TicksPerKg - (r % TicksPerKg)
    ELSE IF r \div TicksPerKg = 0 THEN -(r % TicksPerKg)
    ELSE TicksPerKg - (r % TicksPerKg)

BinErr(t) == IF t <= 0 THEN 0 ELSE BinErrOn(BinRem(t))

\* the double of t ticks is an odd multiple of 2^-e
BinOdd(t) ==
    t > 0 /\ ((BinRem(t) \div TicksPerKg)
                + (IF BinErr(t) > 0 THEN 1 ELSE 0)) % 2 = 1

\* a // b of doubles whose decimals divide evenly into k: the floor of the
\* exact quotient of the doubles, which is k - 1 when a's double falls short
\* of k times b's double; scale brings a's error to the units of b's
FloorDivOn(k, err_a, err_b, scale) ==
    IF err_a * scale >= k * err_b THEN k ELSE k - 1

\* Python int(a // b) for doubles a >= 0 and b > 0 given in ticks
FloorDiv(a, b) ==
    IF a % b # 0 \/ a \div b = 0 THEN a \div b
    ELSE FloorDivOn(a \div b, BinErr(a), BinErr(b), Pow2(BinExp(b) - BinExp(a)))

\* avail >= req * k of doubles whose decimals are equal: the product is
\* the double nearest to k times req's double, a tie going to the even one
GeProductOn(k, err_req, err_avail, scale, odd) ==
    \/ 2 * (k * err_req - err_avail * scale) < TicksPerKg * scale
    \/ 2 * (k * err_req - err_avail * scale) = TicksPerKg * scale /\ ~odd

\* avail >= req_per_batch * expected_batches, on doubles given in ticks
GeProduct(avail, req, k) ==
    IF avail # req * k THEN avail > req * k
    ELSE GeProductOn(k, BinErr(req), BinErr(avail),
                     Pow2(BinExp(req) - BinExp(avail)), BinOdd(avail))

----------------------------------------------------------------------------
(* Code normalizer *)

Digits == {"0", "1", "2", "3", "4", "5", "6", "7", "8", "9"}
Blanks == {" "}

\* the characters raw codes are drawn from: a digit, a letter, a blank
RawAlphabet == {"7", "A", " "}

NaN == [kind |-> "nan"]
Str(s) == [kind |-> "str", s |-> s]

RECURSIVE LStrip(_)
LStrip(s) == IF s # <<>> /\ Head(s) \in Blanks THEN LStrip(Tail(s)) ELSE s

RECURSIVE RStrip(_)
RStrip(s) ==
    IF s # <<>> /\ s[Len(s)] \in Blanks THEN RStrip(SubSeq(s, 1, Len(s) - 1)) ELSE s

\* str.strip()
Strip(s) == RStrip(LStrip(s))

\* str.isdigit(): non-empty and every character a digit
IsDigit(s) == s # <<>> /\ \A i \in 1..Len(s) : s[i] \in Digits

RECURSIVE Zeros(_)
Zeros(n) == IF n <= 0 THEN <<>> ELSE <<"0">> \o Zeros(n - 1)

\* str.zfill(8) of a digit string
ZFill(s) == Zeros(CodeWidth - Len(s)) \o s

\* str.ljust(8, '0')
LJust(s) == s \o Zeros(CodeWidth - Len(s))

\* a widening that cuts every code of more than 8 characters, digits or not
WidenCut(code_str) ==
    IF Len(code_str) > CodeWidth THEN SubSeq(code_str, 1, CodeWidth)
    ELSE IF IsDigit(code_str) THEN ZFill(code_str)
    ELSE LJust(code_str)

\* the stripped string of a code, padded or cut to the width
Widen(code_str) ==
    IF IsDigit(code_str) THEN ZFill(code_str)
    ELSE IF Len(code_str) < CodeWidth THEN LJust(code_str)
    ELSE IF Len(code_str) > CodeWidth THEN SubSeq(code_str, 1, CodeWidth)
    ELSE code_str

preserve_8char_code(code) ==
    IF code.kind = "nan" THEN <<>> ELSE Widen(Strip(code.s))

\* the codes of the allocation model
RM_X == preserve_8char_code(Str(<<"R", "M", "X">>))
RM_Y == preserve_8char_code(Str(<<"R", "M", "Y">>))
FG1 == preserve_8char_code(Str(<<"F", "G", "1">>))
FG2 == preserve_8char_code(Str(<<"F", "G", "2">>))

\* the codes of the transform examples
RM_A == preserve_8char_code(Str(<<"R", "M", "_", "A">>))
RM_B == preserve_8char_code(Str(<<"R", "M", "_", "B">>))
RM_C == preserve_8char_code(Str(<<"R", "M", "_", "C">>))

\* what the loader stores for the 9-character code "RM_C    X": its first 8
\* characters, blanks included
RM_C_CUT == preserve_8char_code(Str(<<"R", "M", "_", "C", " ", " ", " ", " ", "X">>))

----------------------------------------------------------------------------
(* Session state, the locals of the allocation run, and the normalizer's   *)
(* input and output                                                        *)

VARIABLES
    rm_stock,               \* st.session_state.rm_stock: rows [rm, qty]
    rm_po,                  \* st.session_state.rm_po: rows [rm, qty, arrival]
    fg_formulas,            \* st.session_state.fg_formulas: rows [fg, rm, qty]
    modified_fg_formulas,   \* st.session_state.modified_fg_formulas
    fg_analysis_order,      \* keys of st.session_state.fg_analysis_order
    fg_expected_capacity,   \* st.session_state.fg_expected_capacity
    calculation_margin,     \* st.session_state.calculation_margin
    analysis_completed,     \* st.session_state.analysis_completed
    prod_date,              \* the production date of tab 5
    pc,                     \* "idle", "loop" (inside the FIFO loop) or "done"
    fg_pos,                 \* position of the FIFO loop in the order
    initial_stock,          \* the run's read-only stock dict
    allocated_stock,        \* the run's depleting stock dict
    results,                \* the run's result list
    shortage_details,       \* the run's shortage ledger, keyed by FG
    iter,                   \* locals of the last loop iteration
    delayed_pos,            \* the run's count of delayed POs
    history,                \* the finished runs: their inputs and outputs
    raw_code,               \* the value handed to the normalizer
    codes,                  \* what the normalizer returned, pass by pass
    passes,                 \* how often the normalizer was applied
    rm_replacement_rules,   \* st.session_state.rm_replacement_rules: [old, new]
    rm_dilution_rules,      \* st.session_state.rm_dilution_rules: [rm, component, pct]
    formulas_modified,      \* st.session_state.formulas_modified
    dilution_applied,       \* st.session_state.dilution_applied
    dilution_file,          \* the file in the uploader of tab 4
    invalid_rms,            \* the RM codes the last dilution load warned about
    formulas_to_dilute,     \* the table the last Apply Dilution Rules read
    diluted_formulas,       \* its list of rows before they are grouped
    dilutions,              \* Apply Dilution Rules clicks since the last reset
    fg_files,               \* the files in the uploader of tab 2
    fg_select,              \* the widget state of the FG multiselect
    select_all_trigger,     \* st.session_state.select_all_trigger
    multiselect_key,        \* st.session_state.multiselect_key
    tab2_run                \* tab 2 locals of the last script run

vars == <<rm_stock, rm_po, fg_formulas, modified_fg_formulas, fg_analysis_order,
          fg_expected_capacity, calculation_margin, analysis_completed, prod_date,
          pc, fg_pos, initial_stock, allocated_stock, results, shortage_details,
          iter, delayed_pos, history, raw_code, codes, passes,
          rm_replacement_rules, rm_dilution_rules, formulas_modified,
          dilution_applied, dilution_file, invalid_rms, formulas_to_dilute,
          diluted_formulas, dilutions, fg_files, fg_select, select_all_trigger,
          multiselect_key, tab2_run>>

sessionVars == <<rm_stock, rm_po, fg_formulas, modified_fg_formulas,
                 fg_analysis_order, fg_expected_capacity, calculation_margin,
                 analysis_completed, prod_date>>

runVars == <<pc, fg_pos, initial_stock, allocated_stock, results,
             shortage_details, iter, delayed_pos, history>>

normVars == <<raw_code, codes, passes>>

ruleVars == <<rm_replacement_rules, rm_dilution_rules, formulas_modified,
              dilution_applied, dilution_file, invalid_rms, dilutions>>
dilutionLocals == <<formulas_to_dilute, diluted_formulas>>

widgetVars == <<fg_files, fg_select, select_all_trigger, multiselect_key,
                tab2_run>>

----------------------------------------------------------------------------
(* Dicts and tables *)

EmptyDict == [k \in {} |-> 0]

\* dict.get(k, default)
Get(d, k, default) == IF k \in DOMAIN d THEN d[k] ELSE default

\* d[k] = v
Put(d, k, v) == [x \in (DOMAIN d) \cup {k} |-> IF x = k THEN v ELSE d[x]]

\* df[df['FG Code'] == fg]
RowsOf(table, fg) == SelectSeq(table, LAMBDA row : row.fg = fg)

\* df.set_index('RM Code')['Quantity'].to_dict(): a later row of a code wins
RECURSIVE ToDict(_)
ToDict(table) ==
    IF table = <<>> THEN EmptyDict
    ELSE LET n == Len(table)
         IN  Put(ToDict(SubSeq(table, 1, n - 1)), table[n].rm, table[n].qty)

----------------------------------------------------------------------------
(* Tab 5: the stock snapshot and the body of the FIFO loop *)

\* a snapshot that adds the PO lines that arrived before the production date
StockDictWithPO ==
    [k \in DOMAIN ToDict(rm_stock) |->
        PyRound(ToDict(rm_stock)[k]
                   + Get(ToDict(SelectSeq(rm_po, LAMBDA row : row.arrival < prod_date)),
                         k, 0),
                calculation_margin)]

\* stock_dict: the session stock table as a dict, rounded to the precision
StockDict ==
    [k \in DOMAIN ToDict(rm_stock) |->
        PyRound(ToDict(rm_stock)[k], calculation_margin)]

\* formulas_to_use: the modified formulas when there are any
FormulasToUse ==
    IF modified_fg_formulas # <<>> THEN modified_fg_formulas ELSE fg_formulas

\* a line of a shortage breakdown: the RM, the kind of message and its amounts
Line(rm, kind, required, available, shortage) ==
    [rm |-> rm, kind |-> kind, required |-> required,
     available |-> available, shortage |-> shortage]

\* what one formula row adds to possible_batches, missing_rms, shortage_breakdown
RowOut(batches, missing, lines) ==
    [batches |-> batches, missing |-> missing, lines |-> lines]

\* max pass on a row's requirement and availability
MaxBatchesOn(req_per_batch, avail) ==
    IF req_per_batch <= 0 \/ avail <= 0 THEN 0
    ELSE FloorDiv(avail, req_per_batch)

\* a max pass in which an RM without a stock entry does not limit the FG
MaxBatchesForRmLenient(row, decimal_places, stock) ==
    MaxBatchesOn(PyRound(row.qty, decimal_places),
                 Get(stock, preserve_8char_code(Str(row.rm)),
                     PyRound(row.qty, decimal_places)))

\* max pass: the batches one row supports from the initial stock
MaxBatchesForRm(row, decimal_places, stock) ==
    MaxBatchesOn(PyRound(row.qty, decimal_places),
                 Get(stock, preserve_8char_code(Str(row.rm)), 0))

\* a max pass that reads the depleting pool
MaxPossibleBatchesOfPool(formula, decimal_places, initial, allocated) ==
    IF formula # <<>>
    THEN SeqMin([i \in 1..Len(formula) |->
                    MaxBatchesForRm(formula[i], decimal_places, allocated)])
    ELSE 0

\* max pass over the formula of an FG, with both stock dicts of the run in
\* scope: the rows are evaluated against initial_stock
MaxPossibleBatches(formula, decimal_places, initial, allocated) ==
    IF formula # <<>>
    THEN SeqMin([i \in 1..Len(formula) |->
                    MaxBatchesForRm(formula[i], decimal_places, initial)])
    ELSE 0

\* a target that rounds the expected capacity up to whole batches
ExpectedBatchesCeil(expected_capacity) ==
    FloorDiv(expected_capacity + Kg(BatchKg) - 1, Kg(BatchKg))

ExpectedBatches(expected_capacity) ==
    Max2(1, FloorDiv(expected_capacity, Kg(BatchKg)))

\* expected-capacity mode on a row's RM, requirement, availability and total
ExpectedRowOn(rm, req_per_batch, avail, expected_batches, total_required) ==
    IF total_required <= 0
    THEN RowOut(0, <<>>, <<Line(rm, "Invalid requirement", req_per_batch, 0, 0)>>)
    ELSE IF avail <= 0
    THEN RowOut(0, <<rm>>, <<Line(rm, "Available 0", total_required, 0, 0)>>)
    ELSE IF GeProduct(avail, req_per_batch, expected_batches)
    THEN RowOut(expected_batches, <<>>, <<>>)
    ELSE IF FloorDiv(avail, req_per_batch) < expected_batches
    THEN RowOut(FloorDiv(avail, req_per_batch), <<rm>>,
                <<Line(rm, "Shortage", total_required, avail,
                       total_required - avail)>>)
    ELSE RowOut(FloorDiv(avail, req_per_batch), <<>>, <<>>)

\* actual pass, expected-capacity mode: one row against the allocated stock
ExpectedRow(row, decimal_places, expected_batches, stock) ==
    ExpectedRowOn(preserve_8char_code(Str(row.rm)),
                  PyRound(row.qty, decimal_places),
                  Get(stock, preserve_8char_code(Str(row.rm)), 0),
                  expected_batches,
                  PyRound(row.qty, decimal_places) * expected_batches)

\* auto mode on a row's RM, requirement and availability, the availability
\* tested before the requirement
AutoRowOnAvailFirst(rm, req_per_batch, avail) ==
    IF avail <= 0
    THEN RowOut(0, <<rm>>, <<Line(rm, "Available 0", req_per_batch, 0, 0)>>)
    ELSE IF req_per_batch <= 0
    THEN RowOut(0, <<>>, <<Line(rm, "Invalid requirement", req_per_batch, 0, 0)>>)
    ELSE IF FloorDiv(avail, req_per_batch) = 0
    THEN RowOut(0, <<rm>>,
                <<Line(rm, "Shortage", req_per_batch, avail, req_per_batch - avail)>>)
    ELSE RowOut(FloorDiv(avail, req_per_batch), <<>>, <<>>)

\* an auto mode that records no line for a stock below one batch
AutoRowOnSilent(rm, req_per_batch, avail) ==
    IF req_per_batch <= 0
    THEN RowOut(0, <<>>, <<Line(rm, "Invalid requirement", req_per_batch, 0, 0)>>)
    ELSE IF avail <= 0
    THEN RowOut(0, <<rm>>, <<Line(rm, "Available 0", req_per_batch, 0, 0)>>)
    ELSE RowOut(FloorDiv(avail, req_per_batch), <<>>, <<>>)

\* auto mode on a row's RM, requirement and availability
AutoRowOn(rm, req_per_batch, avail) ==
    IF req_per_batch <= 0
    THEN RowOut(0, <<>>, <<Line(rm, "Invalid requirement", req_per_batch, 0, 0)>>)
    ELSE IF avail <= 0
    THEN RowOut(0, <<rm>>, <<Line(rm, "Available 0", req_per_batch, 0, 0)>>)
    ELSE IF FloorDiv(avail, req_per_batch) = 0
    THEN RowOut(0, <<rm>>,
                <<Line(rm, "Shortage", req_per_batch, avail, req_per_batch - avail)>>)
    ELSE RowOut(FloorDiv(avail, req_per_batch), <<>>, <<>>)

\* an auto-mode row that tests the availability before the requirement
AutoRowAvailFirst(row, decimal_places, stock) ==
    AutoRowOnAvailFirst(preserve_8char_code(Str(row.rm)),
                        PyRound(row.qty, decimal_places),
                        Get(stock, preserve_8char_code(Str(row.rm)), 0))

\* actual pass, auto mode: one row against the allocated stock
AutoRow(row, decimal_places, stock) ==
    AutoRowOn(preserve_8char_code(Str(row.rm)),
              PyRound(row.qty, decimal_places),
              Get(stock, preserve_8char_code(Str(row.rm)), 0))

RECURSIVE Flatten(_)
Flatten(ss) == IF ss = <<>> THEN <<>> ELSE Head(ss) \o Flatten(Tail(ss))

\* a status that asks for more than one batch
StatusStrict(actual_capacity) ==
    IF actual_capacity > BatchKg THEN "Ready" ELSE "Shortage"

\* the label of a result: "Ready" is the program's check-mark Ready label,
\* "Shortage" its cross-mark Shortage label
Status(actual_capacity) ==
    IF actual_capacity >= BatchKg THEN "Ready" ELSE "Shortage"

\* a depletion that leaves the pool as it was
DepleteRowSkipped(stock, row, actual_batches, decimal_places) == stock

\* a depletion that takes a row's requirement off every entry of the pool
DepleteRowAll(stock, row, actual_batches, decimal_places) ==
    [k \in DOMAIN stock |->
        PyRound(stock[k] - PyRound(row.qty * actual_batches, decimal_places),
                decimal_places)]

\* depletion of one row: the product of the quantity as stored in the table
\* and the batches, rounded, comes off the RM's entry if it has one
DepleteRow(stock, row, actual_batches, decimal_places) ==
    IF preserve_8char_code(Str(row.rm)) \in DOMAIN stock
    THEN [stock EXCEPT ![preserve_8char_code(Str(row.rm))] =
             PyRound(@ - PyRound(row.qty * actual_batches, decimal_places),
                     decimal_places)]
    ELSE stock

\* depletion: every row of the formula, in turn
RECURSIVE Deplete(_, _, _, _)
Deplete(stock, formula, actual_batches, decimal_places) ==
    IF formula = <<>> THEN stock
    ELSE Deplete(DepleteRow(stock, Head(formula), actual_batches, decimal_places),
                 Tail(formula), actual_batches, decimal_places)

\* the rows of the actual pass
ActualRows(formula, expected_capacity, decimal_places, expected_batches, allocated) ==
    [i \in 1..Len(formula) |->
        IF expected_capacity > 0
        THEN ExpectedRow(formula[i], decimal_places, expected_batches, allocated)
        ELSE AutoRow(formula[i], decimal_places, allocated)]

\* actual batches read off the first row only
ActualBatchesOfFirstRow(expected_capacity, expected_batches, possible_batches) ==
    IF possible_batches # <<>> THEN possible_batches[1] ELSE 0

\* actual_batches: the minimum of possible_batches, capped by the target in
\* expected-capacity mode
ActualBatches(expected_capacity, expected_batches, possible_batches) ==
    IF expected_capacity > 0
    THEN Min2(expected_batches,
              IF possible_batches # <<>> THEN SeqMin(possible_batches) ELSE 0)
    ELSE IF possible_batches # <<>> THEN SeqMin(possible_batches) ELSE 0

\* the locals of an iteration, from its passes
IterRecord(fg, formula, expected_capacity, decimal_places, allocated, max_possible_batches, expected_batches, rows, actual_batches) ==
    [fg |-> fg,
     formula |-> formula,
     expected_capacity |-> expected_capacity,
     decimal_places |-> decimal_places,
     stock_before |-> allocated,
     max_possible_batches |-> max_possible_batches,
     max_capacity |-> max_possible_batches * BatchKg,
     expected_batches |-> expected_batches,
     possible_batches |-> [i \in 1..Len(rows) |-> rows[i].batches],
     missing_rms |-> Flatten([i \in 1..Len(rows) |-> rows[i].missing]),
     shortage_breakdown |-> Flatten([i \in 1..Len(rows) |-> rows[i].lines]),
     actual_batches |-> actual_batches,
     actual_capacity |-> actual_batches * BatchKg,
     status |-> Status(actual_batches * BatchKg),
     allocated |->
        IF actual_batches > 0 /\ Status(actual_batches * BatchKg) = "Ready"
        THEN Deplete(allocated, formula, actual_batches, decimal_places)
        ELSE allocated]

\* the iteration once its rows are evaluated
IterOfRows(fg, formula, expected_capacity, decimal_places, allocated, max_possible_batches, expected_batches, rows) ==
    IterRecord(fg, formula, expected_capacity, decimal_places, allocated,
               max_possible_batches, expected_batches, rows,
               ActualBatches(expected_capacity, expected_batches,
                             [i \in 1..Len(rows) |-> rows[i].batches]))

\* the iteration once its max pass and its target are known
IterOfTarget(fg, formula, expected_capacity, decimal_places, allocated, max_possible_batches, expected_batches) ==
    IterOfRows(fg, formula, expected_capacity, decimal_places, allocated,
               max_possible_batches, expected_batches,
               ActualRows(formula, expected_capacity, decimal_places,
                          expected_batches, allocated))

\* one iteration of the FIFO loop for an FG that has formula rows: its locals
\* and the allocated stock it leaves
LoopBody(fg, formula, expected_capacity, decimal_places, initial, allocated) ==
    IterOfTarget(fg, formula, expected_capacity, decimal_places, allocated,
                 MaxPossibleBatches(formula, decimal_places, initial, allocated),
                 IF expected_capacity > 0 THEN ExpectedBatches(expected_capacity)
                 ELSE 0)

\* the record appended to results; Expected 0 stands for the label "Auto",
\* Max and Actual are the kg values the program formats as "<value> Kg"
ResultOf(it) ==
    [FG |-> it.fg,
     Expected |-> IF it.expected_capacity > 0 THEN it.expected_capacity ELSE 0,
     Max |-> it.max_capacity,
     Actual |-> it.actual_capacity,
     Status |-> it.status,
     Missing |-> Len(it.missing_rms),
     Batches |-> it.actual_batches]

NoIter == [fg |-> <<>>]

\* what the FIFO loop carries from one FG to the next
LoopState(allocated, res, ledger, it) ==
    [allocated |-> allocated, results |-> res, shortage_details |-> ledger,
     iter |-> it]

\* the loop state an iteration leaves: its result and its ledger entry added
StepOf(st, it) ==
    LoopState(it.allocated, Append(st.results, ResultOf(it)),
              Put(st.shortage_details, it.fg, it.shortage_breakdown), it)

\* a loop body that gives every FG of the order a result, rows or not
LoopStepNoSkip(fg, formulas, expected, decimal_places, initial, st) ==
    StepOf(st, LoopBody(fg, RowsOf(formulas, fg), Get(expected, fg, 0),
                        decimal_places, initial, st.allocated))

\* the loop body for one FG of the order: an FG without formula rows is
\* skipped, any other FG gets a result and a ledger entry
LoopStep(fg, formulas, expected, decimal_places, initial, st) ==
    IF RowsOf(formulas, fg) = <<>> THEN st
    ELSE StepOf(st, LoopBody(fg, RowsOf(formulas, fg), Get(expected, fg, 0),
                             decimal_places, initial, st.allocated))

\* the whole FIFO loop over an order, from a loop state
RECURSIVE RunLoop(_, _, _, _, _, _)
RunLoop(order, formulas, expected, decimal_places, initial, st) ==
    IF order = <<>> THEN st
    ELSE RunLoop(Tail(order), formulas, expected, decimal_places, initial,
                 LoopStep(Head(order), formulas, expected, decimal_places,
                          initial, st))

\* delayed_pos: the PO lines that arrive before the production date
DelayedPOs ==
    Cardinality({i \in 1..Len(rm_po) : rm_po[i].arrival < prod_date})

\* what the analysis reads from the session, the PO table left out
RunInputs ==
    [rm_stock |-> rm_stock, fg_formulas |-> fg_formulas,
     modified_fg_formulas |-> modified_fg_formulas,
     fg_analysis_order |-> fg_analysis_order,
     fg_expected_capacity |-> fg_expected_capacity,
     calculation_margin |-> calculation_margin]

----------------------------------------------------------------------------
(* The analysis of tab 5, one script run *)

DataReady ==
    /\ rm_stock # <<>>
    /\ fg_formulas # <<>>
    /\ fg_analysis_order # <<>>

\* a snapshot setup that keeps the pool of the analysis before it
RunStartStale ==
    /\ pc \in {"idle", "done"}
    /\ Len(history) < MaxRuns
    /\ DataReady /\ analysis_completed
    /\ pc' = "loop"
    /\ fg_pos' = 1
    /\ initial_stock' = StockDict
    /\ allocated_stock' = IF pc = "done" THEN allocated_stock ELSE StockDict
    /\ results' = <<>>
    /\ shortage_details' = EmptyDict
    /\ iter' = NoIter
    /\ delayed_pos' = 0
    /\ UNCHANGED <<history, sessionVars, normVars, ruleVars, dilutionLocals, widgetVars>>

\* the snapshot setup: both dicts are fresh copies of the session stock
RunStart ==
    /\ pc \in {"idle", "done"}
    /\ Len(history) < MaxRuns
    /\ DataReady /\ analysis_completed
    /\ pc' = "loop"
    /\ fg_pos' = 1
    /\ initial_stock' = StockDict
    /\ allocated_stock' = StockDict
    /\ results' = <<>>
    /\ shortage_details' = EmptyDict
    /\ iter' = NoIter
    /\ delayed_pos' = 0
    /\ UNCHANGED <<history, sessionVars, normVars, ruleVars, dilutionLocals, widgetVars>>

\* one iteration of "for fg in fg_analysis_order.keys()"
ProcessFG ==
    /\ pc = "loop"
    /\ fg_pos <= Len(fg_analysis_order)
    /\ \E st \in {LoopStep(fg_analysis_order[fg_pos], FormulasToUse,
                           fg_expected_capacity, calculation_margin, initial_stock,
                           LoopState(allocated_stock, results, shortage_details,
                                     iter))} :
          /\ allocated_stock' = st.allocated
          /\ results' = st.results
          /\ shortage_details' = st.shortage_details
          /\ iter' = st.iter
    /\ fg_pos' = fg_pos + 1
    /\ UNCHANGED <<pc, initial_stock, delayed_pos, history, sessionVars, normVars,
                   ruleVars, dilutionLocals, widgetVars>>

\* after the loop: the PO status, and the run is on display
RunFinish ==
    /\ pc = "loop"
    /\ fg_pos > Len(fg_analysis_order)
    /\ pc' = "done"
    /\ delayed_pos' = DelayedPOs
    /\ history' = Append(history,
                         [inputs |-> RunInputs, rm_po |-> rm_po,
                          prod_date |-> prod_date, results |-> results,
                          shortage_details |-> shortage_details,
                          allocated_stock |-> allocated_stock,
                          delayed_pos |-> DelayedPOs])
    /\ UNCHANGED <<fg_pos, initial_stock, allocated_stock, results,
                   shortage_details, iter, sessionVars, normVars, ruleVars, dilutionLocals,
                   widgetVars>>

----------------------------------------------------------------------------
(* Session events between two analyses *)

\* tab 2 runs in every script run: a non-empty selection sets the flag again
FlagAfterTab2(flag) ==
    IF fg_formulas # <<>>
    THEN fg_analysis_order # <<>>
    ELSE flag

\* tab 1: an uploaded PO file, its codes normalized and its empty codes dropped
ProcessedPO(file) ==
    SelectSeq([i \in 1..Len(file) |->
                  [rm |-> preserve_8char_code(file[i].rm), qty |-> file[i].qty,
                   arrival |-> file[i].arrival]],
              LAMBDA row : row.rm # <<>>)

UploadPO(file) ==
    /\ pc \in {"idle", "done"}
    /\ Len(history) < MaxRuns
    /\ ProcessedPO(file) # <<>>
    /\ ProcessedPO(file) # rm_po
    /\ rm_po' = ProcessedPO(file)
    /\ analysis_completed' = FlagAfterTab2(analysis_completed)
    /\ UNCHANGED <<rm_stock, fg_formulas, modified_fg_formulas, fg_analysis_order,
                   fg_expected_capacity, calculation_margin, prod_date,
                   runVars, normVars, ruleVars, dilutionLocals, widgetVars>>

\* tab 1: the Clear RM PO button
ClearPO ==
    /\ pc \in {"idle", "done"}
    /\ Len(history) < MaxRuns
    /\ rm_po # <<>>
    /\ rm_po' = <<>>
    /\ analysis_completed' = FlagAfterTab2(FALSE)
    /\ UNCHANGED <<rm_stock, fg_formulas, modified_fg_formulas, fg_analysis_order,
                   fg_expected_capacity, calculation_margin, prod_date,
                   runVars, normVars, ruleVars, dilutionLocals, widgetVars>>

\* an expected-capacity input that is stored before the analysis of its run
SetExpectedCapacityFirst(fg, new_capacity) ==
    /\ pc \in {"idle", "done"}
    /\ Len(history) < MaxRuns
    /\ DataReady /\ analysis_completed
    /\ \E i \in 1..Len(fg_analysis_order) : fg_analysis_order[i] = fg
    /\ new_capacity # Get(fg_expected_capacity, fg, 0)
    /\ \E st \in {RunLoop(fg_analysis_order, FormulasToUse, Put(fg_expected_capacity, fg, new_capacity),
                          calculation_margin, StockDict,
                          LoopState(StockDict, <<>>, EmptyDict, NoIter))} :
          /\ allocated_stock' = st.allocated
          /\ results' = st.results
          /\ shortage_details' = st.shortage_details
          /\ iter' = st.iter
          /\ history' = Append(history,
                               [inputs |-> RunInputs, rm_po |-> rm_po,
                                prod_date |-> prod_date, results |-> st.results,
                                shortage_details |-> st.shortage_details,
                                allocated_stock |-> st.allocated,
                                delayed_pos |-> DelayedPOs])
    /\ pc' = "done"
    /\ fg_pos' = Len(fg_analysis_order) + 1
    /\ initial_stock' = StockDict
    /\ delayed_pos' = DelayedPOs
    /\ fg_expected_capacity' = Put(fg_expected_capacity, fg, new_capacity)
    /\ UNCHANGED <<rm_stock, rm_po, fg_formulas, modified_fg_formulas,
                   fg_analysis_order, calculation_margin, analysis_completed,
                   prod_date, normVars, ruleVars, dilutionLocals, widgetVars>>

\* tab 5: the script run of a changed expected-capacity input of an FG of the
\* order: the analysis reads the stored capacities, the input is stored after it
SetExpectedCapacity(fg, new_capacity) ==
    /\ pc \in {"idle", "done"}
    /\ Len(history) < MaxRuns
    /\ DataReady /\ analysis_completed
    /\ \E i \in 1..Len(fg_analysis_order) : fg_analysis_order[i] = fg
    /\ new_capacity # Get(fg_expected_capacity, fg, 0)
    /\ \E st \in {RunLoop(fg_analysis_order, FormulasToUse, fg_expected_capacity,
                          calculation_margin, StockDict,
                          LoopState(StockDict, <<>>, EmptyDict, NoIter))} :
          /\ allocated_stock' = st.allocated
          /\ results' = st.results
          /\ shortage_details' = st.shortage_details
          /\ iter' = st.iter
          /\ history' = Append(history,
                               [inputs |-> RunInputs, rm_po |-> rm_po,
                                prod_date |-> prod_date, results |-> st.results,
                                shortage_details |-> st.shortage_details,
                                allocated_stock |-> st.allocated,
                                delayed_pos |-> DelayedPOs])
    /\ pc' = "done"
    /\ fg_pos' = Len(fg_analysis_order) + 1
    /\ initial_stock' = StockDict
    /\ delayed_pos' = DelayedPOs
    /\ fg_expected_capacity' = Put(fg_expected_capacity, fg, new_capacity)
    /\ UNCHANGED <<rm_stock, rm_po, fg_formulas, modified_fg_formulas,
                   fg_analysis_order, calculation_margin, analysis_completed,
                   prod_date, normVars, ruleVars, dilutionLocals, widgetVars>>

----------------------------------------------------------------------------
(* The normalizer applied to a raw value, and again to its own result *)

Normalize ==
    /\ passes < 2
    /\ codes' = Append(codes, preserve_8char_code(IF passes = 0 THEN raw_code
                                                   ELSE Str(codes[passes])))
    /\ passes' = passes + 1
    /\ UNCHANGED <<raw_code, sessionVars, runVars, ruleVars, dilutionLocals, widgetVars>>

----------------------------------------------------------------------------
(* Sorting and grouping of tables                                          *)

\* the characters of the model's codes, in code-point order
CharOrder ==
    <<" ", "0", "1", "2", "3", "4", "5", "6", "7", "8", "9",
      "A", "B", "C", "D", "E", "F", "G", "H", "I", "J", "K", "L", "M",
      "N", "O", "P", "Q", "R", "S", "T", "U", "V", "W", "X", "Y", "Z", "_">>

Ord(c) == CHOOSE i \in 1..Len(CharOrder) : CharOrder[i] = c

\* a < b on Python strings
RECURSIVE StrLess(_, _)
StrLess(a, b) ==
    IF a = <<>> THEN b # <<>>
    ELSE IF b = <<>> THEN FALSE
    ELSE IF Head(a) = Head(b) THEN StrLess(Tail(a), Tail(b))
    ELSE Ord(Head(a)) < Ord(Head(b))

Range(s) == {s[i] : i \in 1..Len(s)}

Abs(x) == IF x < 0 THEN -x ELSE x

\* the codes of a list in ascending order, every code once
RECURSIVE SortedCodes(_)
SortedCodes(selected_fgs) ==
    IF selected_fgs = <<>> THEN <<>>
    ELSE LET m == CHOOSE c \in Range(selected_fgs) :
                     \A o \in Range(selected_fgs) \ {c} : StrLess(c, o)
         IN  <<m>> \o SortedCodes(SelectSeq(selected_fgs, LAMBDA c : c # m))

\* sorted(df['FG Code'].unique().tolist())
UniqueFGs(table) == SortedCodes([i \in 1..Len(table) |-> table[i].fg])

\* the (FG, RM) keys of a table
KeysOf(table) == {<<table[i].fg, table[i].rm>> : i \in 1..Len(table)}

KeyLess(k1, k2) ==
    StrLess(k1[1], k2[1]) \/ (k1[1] = k2[1] /\ StrLess(k1[2], k2[2]))

\* the group keys in the order groupby puts them: ascending
RECURSIVE SortedKeys(_)
SortedKeys(keys) ==
    IF keys = {} THEN <<>>
    ELSE LET m == CHOOSE k \in keys : \A o \in keys \ {k} : KeyLess(k, o)
         IN  <<m>> \o SortedKeys(keys \ {m})

\* ['Quantity'].sum() of the rows of a key
RECURSIVE SumOfKey(_, _)
SumOfKey(table, key) ==
    IF table = <<>> THEN 0
    ELSE (IF <<Head(table).fg, Head(table).rm>> = key THEN Head(table).qty ELSE 0)
         + SumOfKey(Tail(table), key)

\* the rows of the grouped table: one row per key with the sum of its rows
GroupRows(table, keys) ==
    [i \in 1..Len(keys) |->
        [fg |-> keys[i][1], rm |-> keys[i][2], qty |-> SumOfKey(table, keys[i])]]

\* df.groupby(['FG Code', 'RM Code'])['Quantity'].sum().reset_index()
GroupSum(table) == GroupRows(table, SortedKeys(KeysOf(table)))

----------------------------------------------------------------------------
(* The totals of a run, read back from the result list                     *)

\* the decimal digits of a natural number
RECURSIVE DigitsOf(_)
DigitsOf(n) ==
    IF n < 10 THEN <<CharOrder[n + 2]>>
    ELSE Append(DigitsOf(n \div 10), CharOrder[(n % 10) + 2])

\* the ',' option of a format: a comma before every group of three digits
RECURSIVE Grouped(_)
Grouped(digits) ==
    IF Len(digits) <= 3 THEN digits
    ELSE Grouped(SubSeq(digits, 1, Len(digits) - 3)) \o <<",">>
            \o SubSeq(digits, Len(digits) - 2, Len(digits))

\* f"{actual_capacity:,.1f} Kg" of a whole number of kg
ActualText(actual_capacity) ==
    (IF actual_capacity < 0 THEN <<"-">> ELSE <<>>)
       \o Grouped(DigitsOf(IF actual_capacity < 0 THEN -actual_capacity
                           ELSE actual_capacity))
       \o <<".", "0", " ", "K", "g">>

\* the value of a sequence of digits
RECURSIVE DigitsValue(_)
DigitsValue(digits) ==
    IF digits = <<>> THEN 0
    ELSE 10 * DigitsValue(SubSeq(digits, 1, Len(digits) - 1))
            + (Ord(digits[Len(digits)]) - 2)

\* a parse that stops at the first comma
ParseActualToComma(text) ==
    DigitsValue(SubSeq(text, 1,
                       (CHOOSE k \in 1..Len(text) :
                           /\ text[k] \in {",", "."}
                           /\ \A m \in 1..(k - 1) : text[m] \notin {",", "."}) - 1))

\* float(text.replace(' Kg', '').replace(',', '')) of a text whose decimal
\* is 0: the sign and the digits before the point
ParseActual(text) ==
    IF Head(text) = "-"
    THEN -DigitsValue(SelectSeq(SubSeq(text, 2, Len(text) - 5), LAMBDA c : c # ","))
    ELSE DigitsValue(SelectSeq(SubSeq(text, 1, Len(text) - 5), LAMBDA c : c # ","))

\* ready_fgs: the results whose status carries the Ready mark
ReadyFgs(res) == SelectSeq(res, LAMBDA r : r.Status = "Ready")

\* total_volume: the sum of the Actual texts that are not "0.0 Kg"
RECURSIVE TotalVolume(_)
TotalVolume(res) ==
    IF res = <<>> THEN 0
    ELSE (IF ActualText(Head(res).Actual) # ActualText(0)
          THEN ParseActual(ActualText(Head(res).Actual)) ELSE 0)
         + TotalVolume(Tail(res))

\* the Total Batches metric
RECURSIVE TotalBatches(_)
TotalBatches(res) ==
    IF res = <<>> THEN 0 ELSE Head(res).Batches + TotalBatches(Tail(res))

----------------------------------------------------------------------------
(* The RM Analysis ledger of the detailed report, built from the locals of *)
(* the finished run                                                        *)

\* the characters the pattern [A-Z0-9] accepts
PatternChars == {CharOrder[i] : i \in 2..37}

\* what re.search(r'([A-Z0-9]+):', shortage_item) captures from a line that
\* starts with "<rm>: " and has no other colon: the longest run of pattern
\* characters that ends the code, <<>> when there is no match
RECURSIVE MatchedCode(_)
MatchedCode(rm) ==
    IF rm = <<>> \/ rm[Len(rm)] \notin PatternChars THEN <<>>
    ELSE Append(MatchedCode(SubSeq(rm, 1, Len(rm) - 1)), rm[Len(rm)])

\* shortage_rms: the normalized matches of the lines of a breakdown
shortage_rms(breakdown) ==
    {preserve_8char_code(Str(MatchedCode(breakdown[k].rm))) :
        k \in {n \in DOMAIN breakdown : MatchedCode(breakdown[n].rm) # <<>>}}

\* a ledger entry of a producing FG: it has no 'Status' key
ProductionEntryOn(fg_code, rm_code, req_per_batch, batches, available) ==
    [FG |-> fg_code, RM |-> rm_code, Required |-> req_per_batch * batches,
     Available |-> available,
     Shortage |-> Max2(0, req_per_batch * batches - available),
     Batches |-> batches, ReqPerBatch |-> req_per_batch]

ProductionEntry(fg_code, row, batches, decimal_places, initial, allocated) ==
    ProductionEntryOn(fg_code, preserve_8char_code(Str(row.rm)),
                      PyRound(row.qty, decimal_places), batches,
                      Get(allocated, preserve_8char_code(Str(row.rm)), 0)
                        + (Get(initial, preserve_8char_code(Str(row.rm)), 0)
                             - Get(allocated, preserve_8char_code(Str(row.rm)), 0)))

\* a ledger entry of an FG with a shortage breakdown, for one batch
ShortageEntryOn(fg_code, rm_code, req_per_batch, available) ==
    [FG |-> fg_code, RM |-> rm_code, Required |-> req_per_batch,
     Available |-> available, Shortage |-> Max2(0, req_per_batch - available),
     Batches |-> 0, ReqPerBatch |-> req_per_batch, Status |-> "Shortage"]

ShortageEntry(fg_code, row, decimal_places, initial) ==
    ShortageEntryOn(fg_code, preserve_8char_code(Str(row.rm)),
                    PyRound(row.qty, decimal_places),
                    Get(initial, preserve_8char_code(Str(row.rm)), 0))

\* the entries of the FGs that produce, in the order of the results
ProductionEntries(res, formulas, decimal_places, initial, allocated) ==
    Flatten([i \in 1..Len(res) |->
                IF res[i].Batches > 0
                THEN [j \in 1..Len(RowsOf(formulas, res[i].FG)) |->
                         ProductionEntry(res[i].FG, RowsOf(formulas, res[i].FG)[j],
                                         res[i].Batches, decimal_places,
                                         initial, allocated)]
                ELSE <<>>])

\* the rows of a formula that get a shortage entry: those of the matched
\* codes, or all rows when no line of the breakdown matched
ListedRows(formula, rms) ==
    SelectSeq(formula,
              LAMBDA row : rms = {} \/ preserve_8char_code(Str(row.rm)) \in rms)

\* the entries of the FGs with a non-empty shortage breakdown, in the order
\* in which the loop filled shortage_details
ShortageEntries(res, ledger, formulas, decimal_places, initial) ==
    Flatten([i \in 1..Len(res) |->
                IF ledger[res[i].FG] # <<>>
                THEN [j \in 1..Len(ListedRows(RowsOf(formulas, res[i].FG),
                                              shortage_rms(ledger[res[i].FG]))) |->
                         ShortageEntry(res[i].FG,
                                       ListedRows(RowsOf(formulas, res[i].FG),
                                                  shortage_rms(ledger[res[i].FG]))[j],
                                       decimal_places, initial)]
                ELSE <<>>])

\* rm_analysis_data of the finished run
rm_analysis_data ==
    ProductionEntries(results, FormulasToUse, calculation_margin,
                      initial_stock, allocated_stock)
        \o ShortageEntries(results, shortage_details, FormulasToUse,
                           calculation_margin, initial_stock)

\* the column selection of a ledger that has entries raises a KeyError when
\* no entry has the 'Status' key
RmAnalysisRaises(data) ==
    /\ data # <<>>
    /\ \A i \in DOMAIN data : "Status" \notin DOMAIN data[i]

----------------------------------------------------------------------------
(* The replacement and the dilution transform                              *)

\* replacement_map: a later rule of an old code replaces an earlier one
RECURSIVE ReplacementMap(_)
ReplacementMap(rules) ==
    IF rules = <<>> THEN EmptyDict
    ELSE Put(ReplacementMap(SubSeq(rules, 1, Len(rules) - 1)),
             preserve_8char_code(Str(rules[Len(rules)].old)),
             preserve_8char_code(Str(rules[Len(rules)].new)))

\* the RM column after the replacement
Renamed(table, replacement_map) ==
    [i \in 1..Len(table) |->
        [fg |-> table[i].fg,
         rm |-> Get(replacement_map, preserve_8char_code(Str(table[i].rm)),
                    preserve_8char_code(Str(table[i].rm))),
         qty |-> table[i].qty]]

\* apply_rm_replacement() on the session's formulas and replacement rules
apply_rm_replacement(formulas, rules) ==
    IF rules = <<>> \/ formulas = <<>> THEN formulas
    ELSE GroupSum(Renamed(formulas, ReplacementMap(rules)))

\* percentages are integers counting 1/PctScale percent, a binary fraction
PctScale == 128
Pct(n) == n * PctScale

\* 0.0001 kg, in ticks
FloorQty == Pow10(Prec - 4)

\* quotient and remainder of q * p by d, for 0 < d and 0 <= p
MulDivQuot(q, p, d) == (q \div d) * p + ((q % d) * p) \div d
MulDivRem(q, p, d) == ((q % d) * p) % d

\* the multiple of a step nearest to q steps and a remainder r, a tie going
\* to the even multiple
RoundedCount(q, r, step) ==
    IF 2 * r < step THEN q
    ELSE IF 2 * r > step THEN q + 1
    ELSE IF q % 2 = 0 THEN q ELSE q + 1

\* a component quantity without the floor rule
ComponentQtyUnfloored(quot, rem, d) == RoundedCount(quot, rem, d) * FloorQty

\* the component quantity of quot * 0.0001 kg and a remainder of rem / d of
\* 0.0001 kg: 0.0001 when its absolute value is below 0.00005, else rounded
\* to 4 decimal places
ComponentQtyOn(quot, rem, d) ==
    IF (quot = 0 /\ 2 * rem < d) \/ (quot = -1 /\ 2 * rem > d)
    THEN FloorQty
    ELSE RoundedCount(quot, rem, d) * FloorQty

\* component_qty of quantity * (percentage / 100.0)
ComponentQty(quantity, percentage) ==
    ComponentQtyOn(MulDivQuot(quantity, percentage, 100 * PctScale * FloorQty),
                   MulDivRem(quantity, percentage, 100 * PctScale * FloorQty),
                   100 * PctScale * FloorQty)

\* the rows one formula row contributes to diluted_formulas
DiluteRowOn(fg_code, rm_code, quantity, dilution_components) ==
    IF dilution_components = <<>>
    THEN <<[fg |-> fg_code, rm |-> rm_code, qty |-> quantity]>>
    ELSE [k \in 1..Len(dilution_components) |->
             [fg |-> fg_code,
              rm |-> preserve_8char_code(Str(dilution_components[k].component)),
              qty |-> ComponentQty(quantity, dilution_components[k].pct)]]

DiluteRow(formula_row, rules) ==
    DiluteRowOn(formula_row.fg, preserve_8char_code(Str(formula_row.rm)),
                formula_row.qty,
                SelectSeq(rules,
                          LAMBDA r : r.rm = preserve_8char_code(Str(formula_row.rm))))

\* diluted_formulas: the list the loop over the formula rows builds
DilutedRows(formulas_df, rules) ==
    Flatten([i \in 1..Len(formulas_df) |-> DiluteRow(formulas_df[i], rules)])

\* apply_dilution_rules(formulas_df) with the session's dilution rules
apply_dilution_rules(formulas_df, rules) ==
    IF rules = <<>> THEN formulas_df
    ELSE IF formulas_df = <<>> THEN <<>>
    ELSE GroupSum(DilutedRows(formulas_df, rules))

\* tab 4: the rows of an uploaded dilution file, codes normalized, rows with
\* an empty code or without a positive percentage dropped
ProcessedDilution(file) ==
    SelectSeq([i \in 1..Len(file) |->
                  [rm |-> preserve_8char_code(file[i].rm),
                   component |-> preserve_8char_code(file[i].component),
                   pct |-> file[i].pct]],
              LAMBDA row : row.rm # <<>> /\ row.component # <<>> /\ row.pct > 0)

\* groupby('RM Code')['Percentage'].sum() for one RM
RECURSIVE SumPct(_, _)
SumPct(rules, rm) ==
    IF rules = <<>> THEN 0
    ELSE (IF Head(rules).rm = rm THEN Head(rules).pct ELSE 0)
         + SumPct(Tail(rules), rm)

\* the RM codes of the percentage summary, in the order groupby gives
RuleRms(processed_dilution) ==
    SortedCodes([j \in 1..Len(processed_dilution) |-> processed_dilution[j].rm])

\* a check that only flags sums above 100
InvalidRmsAbove(processed_dilution) ==
    SelectSeq(RuleRms(processed_dilution),
              LAMBDA rm : 100 * (SumPct(processed_dilution, rm) - Pct(100)) > PctScale)

\* invalid_rms: the RMs whose percentages are more than 0.01 off 100
InvalidRms(processed_dilution) ==
    SelectSeq(RuleRms(processed_dilution),
              LAMBDA rm : 100 * Abs(SumPct(processed_dilution, rm) - Pct(100))
                              > PctScale)

----------------------------------------------------------------------------
(* Tab 2 of a script run: the formula files, the selection, the order      *)

\* tab 2: the rows of an uploaded formula file, codes normalized, rows with
\* an empty code dropped (no normalized code is the string 'nan')
ProcessedFG(file) ==
    SelectSeq([i \in 1..Len(file) |->
                  [fg |-> preserve_8char_code(file[i].fg),
                   rm |-> preserve_8char_code(file[i].rm),
                   qty |-> file[i].qty]],
              LAMBDA row : row.fg # <<>> /\ row.rm # <<>>)

\* drop_duplicates(subset=['FG Code', 'RM Code'], keep='first')
RECURSIVE DropDuplicates(_)
DropDuplicates(table) ==
    IF table = <<>> THEN <<>>
    ELSE IF \E i \in 1..(Len(table) - 1) :
               /\ table[i].fg = table[Len(table)].fg
               /\ table[i].rm = table[Len(table)].rm
    THEN DropDuplicates(SubSeq(table, 1, Len(table) - 1))
    ELSE Append(DropDuplicates(SubSeq(table, 1, Len(table) - 1)),
                table[Len(table)])

\* the formula table after one file: the file's rows become the table when
\* there is none, else they are appended and the duplicates dropped
LoadProcessed(processed_fg, table) ==
    IF processed_fg = <<>> THEN table
    ELSE IF table = <<>> THEN processed_fg
    ELSE DropDuplicates(table \o processed_fg)

\* "for f in fg_files": the table after all files of the uploader
RECURSIVE LoadFiles(_, _)
LoadFiles(files, table) ==
    IF files = <<>> THEN table
    ELSE LoadFiles(Tail(files), LoadProcessed(ProcessedFG(Head(files)), table))

\* no state of the multiselect: it was not rendered, or its key is new
NoWidget == [key |-> -1]

\* an order in the sequence the user picked the FGs
NewOrderAsPicked(selected_fgs) == selected_fgs

\* new_order: the keys of the OrderedDict built from sorted(selected_fgs)
NewOrder(selected_fgs) == SortedCodes(selected_fgs)

\* what st.multiselect can return: the user's pick <<s>> when there is one,
\* else its default (all codes after Select All, else the order) or the
\* value it kept under the same key
SelectedOpts(table, pick) ==
    IF pick # <<>> THEN {pick[1]}
    ELSE {IF select_all_trigger THEN UniqueFGs(table) ELSE fg_analysis_order}
         \cup (IF /\ fg_select # NoWidget
                  /\ fg_select.key = multiselect_key
                  /\ Range(fg_select.value) \subseteq Range(UniqueFGs(table))
               THEN {fg_select.value} ELSE {})

\* tab 2 when the table is empty after the load: nothing is rendered
Tab2Skipped ==
    [fg_formulas |-> <<>>,
     fg_analysis_order |-> fg_analysis_order,
     analysis_completed |-> analysis_completed,
     select_all_trigger |-> select_all_trigger,
     fg_select |-> NoWidget,
     selected_fgs |-> <<>>]

\* tab 2 on a table and the value of the multiselect: the order is rebuilt
Tab2After(table, selected_fgs, trigger, key) ==
    [fg_formulas |-> table,
     fg_analysis_order |->
        IF selected_fgs # <<>> THEN NewOrder(selected_fgs) ELSE <<>>,
     analysis_completed |-> selected_fgs # <<>>,
     select_all_trigger |->
        IF selected_fgs # <<>> /\ Range(selected_fgs) = Range(UniqueFGs(table))
        THEN trigger ELSE FALSE,
     fg_select |-> [key |-> key, value |-> selected_fgs],
     selected_fgs |-> selected_fgs]

\* column 1 of tab 2 in a script run whose load left a table
Tab2Outcomes(table, pick) ==
    IF table = <<>> THEN {Tab2Skipped}
    ELSE {Tab2After(table, sel, select_all_trigger, multiselect_key) :
             sel \in SelectedOpts(table, pick)}

\* the session after column 1 of tab 2
Tab2Assign(t) ==
    /\ fg_formulas' = t.fg_formulas
    /\ fg_analysis_order' = t.fg_analysis_order
    /\ analysis_completed' = t.analysis_completed
    /\ select_all_trigger' = t.select_all_trigger
    /\ fg_select' = t.fg_select

\* no button of tab 2 acted in the script run
Tab2Plain(t) ==
    tab2_run' = [selected_fgs |-> t.selected_fgs, to_delete |-> {},
                 cleared |-> FALSE]

\* a script run recomputes tab 5 from scratch
ResetRun ==
    /\ pc \in {"idle", "done"}
    /\ pc' = "idle"
    /\ fg_pos' = 0
    /\ initial_stock' = EmptyDict
    /\ allocated_stock' = EmptyDict
    /\ results' = <<>>
    /\ shortage_details' = EmptyDict
    /\ iter' = NoIter
    /\ delayed_pos' = 0
    /\ history' = <<>>

\* the locals of apply_dilution_rules() do not outlive the script run
DropLocals ==
    /\ formulas_to_dilute' = <<>>
    /\ diluted_formulas' = <<>>

----------------------------------------------------------------------------
(* Script runs: one user event each                                        *)

\* tab 2: the user adds files to the uploader or removes them
SetUploader(files) ==
    /\ ResetRun
    /\ DropLocals
    /\ files # fg_files
    /\ fg_files' = files
    /\ \E t \in Tab2Outcomes(LoadFiles(files, fg_formulas), <<>>) :
          Tab2Assign(t) /\ Tab2Plain(t)
    /\ UNCHANGED <<rm_stock, rm_po, modified_fg_formulas, fg_expected_capacity,
                   calculation_margin, prod_date, multiselect_key, normVars,
                   ruleVars>>

\* tab 2: the user changes the selection of the multiselect
PickFGs(s) ==
    /\ ResetRun
    /\ DropLocals
    /\ fg_select # NoWidget
    /\ fg_select.key = multiselect_key
    /\ s # fg_select.value
    /\ Range(s) \subseteq Range(UniqueFGs(LoadFiles(fg_files, fg_formulas)))
    /\ \E t \in Tab2Outcomes(LoadFiles(fg_files, fg_formulas), <<s>>) :
          Tab2Assign(t) /\ Tab2Plain(t)
    /\ UNCHANGED <<rm_stock, rm_po, modified_fg_formulas, fg_expected_capacity,
                   calculation_margin, prod_date, multiselect_key, fg_files,
                   normVars, ruleVars>>

\* tab 2: Select All sets the trigger, takes a new key and reruns the script;
\* the rerun loads the files again and finds a new multiselect on its default
SelectAll ==
    /\ ResetRun
    /\ DropLocals
    /\ fg_select # NoWidget
    /\ multiselect_key < MaxWidgetKey
    /\ LoadFiles(fg_files, fg_formulas) # <<>>
    /\ \E table \in {LoadFiles(fg_files, LoadFiles(fg_files, fg_formulas))} :
          \E t \in {Tab2After(table, UniqueFGs(table), TRUE, multiselect_key + 1)} :
              Tab2Assign(t) /\ Tab2Plain(t)
    /\ multiselect_key' = multiselect_key + 1
    /\ UNCHANGED <<rm_stock, rm_po, modified_fg_formulas, fg_expected_capacity,
                   calculation_margin, prod_date, fg_files, normVars, ruleVars>>

\* tab 2: Clear All FG Formulas, after column 1 of the same script run
ClearAll ==
    /\ ResetRun
    /\ DropLocals
    /\ \E t \in Tab2Outcomes(LoadFiles(fg_files, fg_formulas), <<>>) :
          /\ fg_select' = IF multiselect_key = 0 THEN t.fg_select ELSE NoWidget
          /\ tab2_run' = [selected_fgs |-> t.selected_fgs, to_delete |-> {},
                          cleared |-> TRUE]
    /\ fg_formulas' = <<>>
    /\ fg_analysis_order' = <<>>
    /\ fg_expected_capacity' = EmptyDict
    /\ analysis_completed' = FALSE
    /\ select_all_trigger' = FALSE
    /\ multiselect_key' = 0
    /\ modified_fg_formulas' = <<>>
    /\ formulas_modified' = FALSE
    /\ dilutions' = 0
    /\ UNCHANGED <<rm_stock, rm_po, calculation_margin, prod_date, fg_files,
                   normVars, rm_replacement_rules, rm_dilution_rules,
                   dilution_applied, dilution_file, invalid_rms>>

\* the dict without the keys of to_delete
Without(d, to_delete) == [k \in (DOMAIN d) \ to_delete |-> d[k]]

\* tab 2: Delete Selected FG, after column 1 of the same script run
DeleteFG(to_delete) ==
    /\ ResetRun
    /\ DropLocals
    /\ fg_formulas # <<>>
    /\ to_delete # {}
    /\ to_delete \subseteq Range(UniqueFGs(fg_formulas))
    /\ multiselect_key < MaxWidgetKey
    /\ \E t \in Tab2Outcomes(LoadFiles(fg_files, fg_formulas), <<>>) :
          /\ fg_formulas' = SelectSeq(t.fg_formulas, LAMBDA row : row.fg \notin to_delete)
          /\ fg_analysis_order' =
                SelectSeq(t.fg_analysis_order, LAMBDA fg : fg \notin to_delete)
          /\ analysis_completed' =
                IF SelectSeq(t.fg_analysis_order, LAMBDA fg : fg \notin to_delete) = <<>>
                THEN FALSE ELSE t.analysis_completed
          /\ tab2_run' = [selected_fgs |-> t.selected_fgs, to_delete |-> to_delete,
                          cleared |-> FALSE]
    /\ fg_expected_capacity' = Without(fg_expected_capacity, to_delete)
    /\ select_all_trigger' = FALSE
    /\ multiselect_key' = multiselect_key + 1
    /\ fg_select' = NoWidget
    /\ UNCHANGED <<rm_stock, rm_po, modified_fg_formulas, calculation_margin,
                   prod_date, fg_files, normVars, ruleVars>>

\* a replacement that works on the table an earlier transform left
ApplyReplacementOnModified ==
    /\ ResetRun
    /\ DropLocals
    /\ rm_replacement_rules # <<>>
    /\ \E t \in Tab2Outcomes(LoadFiles(fg_files, fg_formulas), <<>>) :
          /\ t.fg_formulas # <<>>
          /\ Tab2Assign(t) /\ Tab2Plain(t)
          /\ modified_fg_formulas' =
                apply_rm_replacement(IF modified_fg_formulas # <<>>
                                     THEN modified_fg_formulas
                                     ELSE t.fg_formulas,
                                     rm_replacement_rules)
    /\ formulas_modified' = TRUE
    /\ dilution_applied' = FALSE
    /\ dilutions' = 0
    /\ UNCHANGED <<rm_stock, rm_po, fg_expected_capacity, calculation_margin,
                   prod_date, multiselect_key, fg_files, normVars,
                   rm_replacement_rules, rm_dilution_rules, dilution_file,
                   invalid_rms>>

\* tab 3: Apply Replacement Rules on the formulas the script run loaded
ApplyReplacement ==
    /\ ResetRun
    /\ DropLocals
    /\ rm_replacement_rules # <<>>
    /\ \E t \in Tab2Outcomes(LoadFiles(fg_files, fg_formulas), <<>>) :
          /\ t.fg_formulas # <<>>
          /\ Tab2Assign(t) /\ Tab2Plain(t)
          /\ modified_fg_formulas' =
                apply_rm_replacement(t.fg_formulas, rm_replacement_rules)
    /\ formulas_modified' = TRUE
    /\ dilution_applied' = FALSE
    /\ dilutions' = 0
    /\ UNCHANGED <<rm_stock, rm_po, fg_expected_capacity, calculation_margin,
                   prod_date, multiselect_key, fg_files, normVars,
                   rm_replacement_rules, rm_dilution_rules, dilution_file,
                   invalid_rms>>

\* tab 4: a dilution file is put into the uploader; its rules are stored when
\* it has any, and the RMs whose percentages do not sum to 100 are named
UploadDilution(file) ==
    /\ ResetRun
    /\ DropLocals
    /\ file # dilution_file
    /\ dilution_file' = file
    /\ \E t \in Tab2Outcomes(LoadFiles(fg_files, fg_formulas), <<>>) :
          Tab2Assign(t) /\ Tab2Plain(t)
    /\ \E processed_dilution \in {ProcessedDilution(file)} :
          IF processed_dilution # <<>>
          THEN /\ rm_dilution_rules' = processed_dilution
               /\ invalid_rms' = InvalidRms(processed_dilution)
          ELSE /\ rm_dilution_rules' = rm_dilution_rules
               /\ invalid_rms' = <<>>
    /\ UNCHANGED <<rm_stock, rm_po, modified_fg_formulas, fg_expected_capacity,
                   calculation_margin, prod_date, multiselect_key, fg_files,
                   normVars, rm_replacement_rules, formulas_modified,
                   dilution_applied, dilutions>>

\* tab 4: Apply Dilution Rules on the modified formulas when there are any,
\* else on the formulas the script run loaded
ApplyDilution ==
    /\ ResetRun
    /\ rm_dilution_rules # <<>>
    /\ dilutions < MaxDilutions
    /\ \E t \in Tab2Outcomes(LoadFiles(fg_files, fg_formulas), <<>>) :
          /\ Tab2Assign(t) /\ Tab2Plain(t)
          /\ \E source \in {IF formulas_modified THEN modified_fg_formulas
                            ELSE t.fg_formulas} :
                /\ source # <<>>
                /\ formulas_to_dilute' = source
                /\ diluted_formulas' = DilutedRows(source, rm_dilution_rules)
                /\ modified_fg_formulas' =
                      apply_dilution_rules(source, rm_dilution_rules)
    /\ dilution_applied' = TRUE
    /\ dilutions' = dilutions + 1
    /\ UNCHANGED <<rm_stock, rm_po, fg_expected_capacity, calculation_margin,
                   prod_date, multiselect_key, fg_files, normVars,
                   rm_replacement_rules, rm_dilution_rules, formulas_modified,
                   dilution_file, invalid_rms>>

----------------------------------------------------------------------------
(* The sessions the model starts from *)

\* an optional row of a table: <<>> for no row, <<q>> for a row of quantity q
StockRow(rm, opt) == IF opt = <<>> THEN <<>> ELSE <<[rm |-> rm, qty |-> opt[1]]>>
FormulaRow(fg, rm, opt) ==
    IF opt = <<>> THEN <<>> ELSE <<[fg |-> fg, rm |-> rm, qty |-> opt[1]]>>

StockOptsX == {<<>>, <<0>>, <<Kg(4)>>} \cup {<<Kg(30 * k)>> : k \in 1..MaxStockLots}
StockOptsY == {<<>>, <<Kg(30)>>}

QtyOpts1X == {<<>>, <<0>>, <<HalfKg(1)>>, <<HalfKg(5)>>, <<Kg(30)>>}
QtyOpts1Y == {<<>>, <<-Kg(1)>>, <<Kg(30)>>}
QtyOpts2X == {<<>>, <<HalfKg(5)>>, <<Kg(30)>>}
QtyOpts2Y == {<<>>, <<Kg(30)>>}

\* expected capacities: 0 (auto), 10 kg, 40 kg and whole batches
ExpectedOpts == {0, Kg(10), Kg(40)} \cup {Kg(BatchKg * k) : k \in 2..MaxTargetBatches}

DecimalPlaceOpts == {0, DefaultDecimalPlaces, MaxDecimalPlaces}

\* the FG codes of a formula table, ascending
FGsOf(table) ==
    (IF RowsOf(table, FG1) # <<>> THEN <<FG1>> ELSE <<>>)
        \o (IF RowsOf(table, FG2) # <<>> THEN <<FG2>> ELSE <<>>)

\* the selections of a formula table: non-empty, in ascending order of code
OrdersOf(table) ==
    {o \in {<<FG1>>, <<FG2>>, <<FG1, FG2>>} :
        \A i \in 1..Len(o) : RowsOf(table, o[i]) # <<>>}

\* the expected capacities stored for the FGs of an order
ExpectedDicts(order) ==
    {[k \in {fg \in {FG1, FG2} : e[fg] > 0} |-> e[k]] :
        e \in {f \in [{FG1, FG2} -> ExpectedOpts] :
                  /\ \A fg \in {FG1, FG2} :
                        f[fg] > 0 => \E i \in 1..Len(order) : order[i] = fg
                  /\ f[FG2] \in {0, Kg(BatchKg)}}}

\* a modified table left behind by a transform applied before FG2 was
\* uploaded: the rows of FG1 only
ModifiedOpts(table, order) ==
    {<<>>} \cup
    (IF order = <<FG1, FG2>> THEN {RowsOf(table, FG1)} ELSE {})

IdleRun ==
    /\ pc = "idle"
    /\ fg_pos = 0
    /\ initial_stock = EmptyDict
    /\ allocated_stock = EmptyDict
    /\ results = <<>>
    /\ shortage_details = EmptyDict
    /\ iter = NoIter
    /\ delayed_pos = 0
    /\ history = <<>>

IdleNorm ==
    /\ raw_code = NaN
    /\ codes = <<>>
    /\ passes = 2

\* no transform rules, no transform applied
IdleRules ==
    /\ rm_replacement_rules = <<>>
    /\ rm_dilution_rules = <<>>
    /\ dilution_applied = FALSE
    /\ dilution_file = <<>>
    /\ invalid_rms = <<>>
    /\ formulas_to_dilute = <<>>
    /\ diluted_formulas = <<>>
    /\ dilutions = 0

\* the uploader of tab 2 is empty and the multiselect holds the order
IdleWidgets ==
    /\ fg_files = <<>>
    /\ fg_select = IF fg_formulas = <<>> THEN NoWidget
                   ELSE [key |-> 0, value |-> fg_analysis_order]
    /\ select_all_trigger = FALSE
    /\ multiselect_key = 0
    /\ tab2_run = [selected_fgs |-> fg_analysis_order, to_delete |-> {},
                   cleared |-> FALSE]

\* a session with stock, formulas and a selection, ready for its analysis
Init ==
    /\ \E x \in StockOptsX, y \in StockOptsY :
          /\ rm_stock = StockRow(RM_X, x) \o StockRow(RM_Y, y)
          /\ rm_stock # <<>>
    /\ \E a \in QtyOpts1X, b \in QtyOpts1Y, c \in QtyOpts2X, d \in QtyOpts2Y :
          /\ fg_formulas = FormulaRow(FG1, RM_X, a) \o FormulaRow(FG1, RM_Y, b)
                             \o FormulaRow(FG2, RM_X, c) \o FormulaRow(FG2, RM_Y, d)
          /\ fg_formulas # <<>>
    /\ fg_analysis_order \in OrdersOf(fg_formulas)
    /\ modified_fg_formulas \in ModifiedOpts(fg_formulas, fg_analysis_order)
    /\ fg_expected_capacity \in ExpectedDicts(fg_analysis_order)
    /\ calculation_margin \in DecimalPlaceOpts
    /\ analysis_completed = TRUE
    /\ rm_po = <<>>
    /\ prod_date = 2
    /\ IdleRun
    /\ IdleNorm
    /\ IdleRules
    /\ IdleWidgets
    /\ formulas_modified = (modified_fg_formulas # <<>>)

\* one analysis of the session
Next == RunStart \/ ProcessFG \/ RunFinish

Spec == Init /\ [][Next]_vars

----------------------------------------------------------------------------
(* One analysis of a session whose quantities are tenths of a kilogram,    *)
(* which no double holds exactly                                           *)

\* an expected capacity for the first FG only: none, or whole batches
DecimalExpected(order) ==
    {[k \in (IF e > 0 THEN {FG1} ELSE {}) |-> e] :
        e \in {c \in {0} \cup {Kg(BatchKg * k) : k \in 1..MaxDecimalBatches} :
                  c > 0 => order[1] = FG1}}

InitDecimal ==
    /\ \E x \in 1..MaxStockTenths, y \in StockOptsY :
          rm_stock = StockRow(RM_X, <<TenthKg(x)>>) \o StockRow(RM_Y, y)
    /\ \E a \in 1..3, b \in QtyOpts2Y, c \in {<<>>, <<TenthKg(1)>>} :
          fg_formulas = FormulaRow(FG1, RM_X, <<TenthKg(a)>>)
                          \o FormulaRow(FG1, RM_Y, b) \o FormulaRow(FG2, RM_X, c)
    /\ fg_analysis_order \in OrdersOf(fg_formulas)
    /\ modified_fg_formulas = <<>>
    /\ fg_expected_capacity \in DecimalExpected(fg_analysis_order)
    /\ calculation_margin \in {DefaultDecimalPlaces, MaxDecimalPlaces}
    /\ analysis_completed = TRUE
    /\ rm_po = <<>>
    /\ prod_date = 2
    /\ IdleRun
    /\ IdleNorm
    /\ IdleRules
    /\ IdleWidgets
    /\ formulas_modified = FALSE

NextDecimal == RunStart \/ ProcessFG \/ RunFinish

SpecDecimal == InitDecimal /\ [][NextDecimal]_vars

----------------------------------------------------------------------------
(* Repeated analyses of a session whose PO table and expected capacities    *)
(* change in between                                                       *)

POFiles ==
    {<<[rm |-> Str(<<"R", "M", "X">>), qty |-> Kg(30), arrival |-> d]>> : d \in {1, 3}}
    \cup {<<[rm |-> Str(<<"R", "M", "X">>), qty |-> Kg(30), arrival |-> 1],
            [rm |-> NaN, qty |-> Kg(30), arrival |-> 1],
            [rm |-> Str(<<"R", "M", "Y">>), qty |-> Kg(60), arrival |-> 3]>>}

InitRerun ==
    /\ \E x \in {<<Kg(30)>>, <<Kg(60)>>} : rm_stock = StockRow(RM_X, x)
    /\ \E a \in {<<HalfKg(5)>>, <<Kg(30)>>} :
          fg_formulas = FormulaRow(FG1, RM_X, a) \o FormulaRow(FG2, RM_X, <<Kg(30)>>)
    /\ fg_analysis_order \in OrdersOf(fg_formulas)
    /\ modified_fg_formulas = <<>>
    /\ fg_expected_capacity = EmptyDict
    /\ calculation_margin \in {0, DefaultDecimalPlaces}
    /\ analysis_completed = TRUE
    /\ rm_po \in {<<>>} \cup {ProcessedPO(f) : f \in POFiles}
    /\ prod_date = 2
    /\ IdleRun
    /\ IdleNorm
    /\ IdleRules
    /\ IdleWidgets
    /\ formulas_modified = (modified_fg_formulas # <<>>)

NextRerun ==
    \/ RunStart
    \/ ProcessFG
    \/ RunFinish
    \/ \E f \in POFiles : UploadPO(f)
    \/ ClearPO
    \/ \E fg \in {FG1, FG2}, c \in {0, Kg(2 * BatchKg)} : SetExpectedCapacity(fg, c)

SpecRerun == InitRerun /\ [][NextRerun]_vars

----------------------------------------------------------------------------
(* The normalizer on raw codes *)

\* the strings of n characters of the raw alphabet
RECURSIVE RawStringsOfLen(_)
RawStringsOfLen(n) ==
    IF n = 0 THEN {<<>>}
    ELSE {Append(s, c) : s \in RawStringsOfLen(n - 1), c \in RawAlphabet}

RawStrings(n) == UNION {RawStringsOfLen(k) : k \in 0..n}

\* the raw values of at most n characters, and NaN
RawCodes(n) == {NaN} \cup {Str(s) : s \in RawStrings(n)}

\* the codes of the documented examples
ExampleCodes ==
    {Str(<<"7">>), Str(<<"A", "B", "1">>),
     Str(<<"A", "B", "C", "D", "E", "F", "G", "H", "I">>)}

InitNorm ==
    /\ raw_code \in RawCodes(MaxCodeLen) \cup ExampleCodes
    /\ codes = <<>>
    /\ passes = 0
    /\ rm_stock = <<>>
    /\ rm_po = <<>>
    /\ fg_formulas = <<>>
    /\ modified_fg_formulas = <<>>
    /\ fg_analysis_order = <<>>
    /\ fg_expected_capacity = EmptyDict
    /\ calculation_margin = DefaultDecimalPlaces
    /\ analysis_completed = FALSE
    /\ prod_date = 2
    /\ IdleRun
    /\ IdleRules
    /\ IdleWidgets
    /\ formulas_modified = FALSE

NextNorm == Normalize

SpecNorm == InitNorm /\ [][NextNorm]_vars

----------------------------------------------------------------------------
(* The transforms on loaded formulas and rules                             *)

\* formula quantities of the transform examples, in ticks: 10 kg, 0.001 kg,
\* 0, -0.001 kg and 0.016 kg
TransformQtyA == {<<>>, <<Kg(10)>>, <<Kg(1) \div 1000>>, <<0>>,
                  <<-(Kg(1) \div 1000)>>, <<Kg(16) \div 1000>>}

\* formula tables: up to two rows of FG1 for RM_A (a pair loaded twice by a
\* first upload), a row of FG1 for RM_B, a row of FG2 for RM_A and a row of
\* FG2 for a code the loader cut to 8 characters
TransformTables ==
    {FormulaRow(FG1, RM_A, a) \o FormulaRow(FG1, RM_B, b)
        \o FormulaRow(FG2, RM_A, c) \o FormulaRow(FG1, RM_A, d)
        \o FormulaRow(FG2, RM_C_CUT, e) :
        a \in TransformQtyA, b \in {<<>>, <<Kg(5)>>}, c \in {<<>>, <<Kg(10)>>},
        d \in {<<>>, <<HalfKg(5)>>}, e \in {<<>>, <<Kg(5)>>}} \ {<<>>}

ReplacementRule(old, new) == [old |-> old, new |-> new]

ReplacementRuleSets ==
    {<<>>,
     <<ReplacementRule(RM_A, RM_B)>>,
     <<ReplacementRule(RM_A, RM_C), ReplacementRule(RM_A, RM_B)>>,
     <<ReplacementRule(RM_B, RM_A)>>}

DilutionRow(rm, component, pct) == [rm |-> rm, component |-> component, pct |-> pct]

\* 2^-bits percent
PctFraction(bits) == PctScale \div Pow2(bits)

\* dilution files: percentages of RM_A that sum to 100, to 100 + 2^-7, to
\* 100 + 2^-6, to 100 - 2^-6, to 99 next to an RM_B at 100, and a file
\* without a valid row
DilutionFiles ==
    {<<DilutionRow(Str(<<"R", "M", "_", "A">>), Str(<<"R", "M", "_", "B">>), Pct(1)),
       DilutionRow(Str(<<"R", "M", "_", "A">>), Str(<<"R", "M", "_", "C">>), Pct(99))>>,
     <<DilutionRow(Str(<<"R", "M", "_", "A">>), Str(<<"R", "M", "_", "B">>), Pct(50)),
       DilutionRow(Str(<<"R", "M", "_", "A">>), Str(<<"R", "M", "_", "C">>),
                   Pct(50) + PctFraction(7))>>,
     <<DilutionRow(Str(<<"R", "M", "_", "A">>), Str(<<"R", "M", "_", "B">>), Pct(50)),
       DilutionRow(Str(<<"R", "M", "_", "A">>), Str(<<"R", "M", "_", "C">>),
                   Pct(50) + PctFraction(6))>>,
     <<DilutionRow(Str(<<"R", "M", "_", "A">>), Str(<<"R", "M", "_", "B">>), Pct(50)),
       DilutionRow(Str(<<"R", "M", "_", "A">>), Str(<<"R", "M", "_", "C">>),
                   Pct(50) - PctFraction(6))>>,
     <<DilutionRow(Str(<<"R", "M", "_", "B">>), Str(<<"R", "M", "_", "C">>), Pct(100)),
       DilutionRow(Str(<<"R", "M", "_", "A">>), NaN, Pct(1)),
       DilutionRow(Str(<<"R", "M", "_", "A">>), Str(<<"R", "M", "_", "C">>), Pct(99))>>,
     <<DilutionRow(NaN, Str(<<"R", "M", "_", "C">>), Pct(100)),
       DilutionRow(Str(<<"R", "M", "_", "A">>), Str(<<"R", "M", "_", "C">>), 0)>>}

\* a session with formulas and replacement rules loaded, nothing selected
InitTransform ==
    /\ rm_stock = <<>>
    /\ rm_po = <<>>
    /\ fg_formulas \in TransformTables
    /\ modified_fg_formulas = <<>>
    /\ fg_analysis_order = <<>>
    /\ fg_expected_capacity = EmptyDict
    /\ calculation_margin = DefaultDecimalPlaces
    /\ analysis_completed = FALSE
    /\ prod_date = 2
    /\ IdleRun
    /\ IdleNorm
    /\ rm_replacement_rules \in ReplacementRuleSets
    /\ rm_dilution_rules = <<>>
    /\ formulas_modified = FALSE
    /\ dilution_applied = FALSE
    /\ dilution_file = <<>>
    /\ invalid_rms = <<>>
    /\ formulas_to_dilute = <<>>
    /\ diluted_formulas = <<>>
    /\ dilutions = 0
    /\ IdleWidgets

NextTransform ==
    \/ \E file \in DilutionFiles : UploadDilution(file)
    \/ ApplyReplacement
    \/ ApplyDilution

SpecTransform == InitTransform /\ [][NextTransform]_vars

----------------------------------------------------------------------------
(* A session from its start: uploads, selection, deletions, transforms and *)
(* the analysis of every script run                                       *)

RawFormulaRow(fg, rm, qty) == [fg |-> fg, rm |-> rm, qty |-> qty]

\* a file with one row of FG1
File1 == <<RawFormulaRow(Str(<<"F", "G", "1">>), Str(<<"R", "M", "X">>), Kg(30))>>

\* a file that holds the pair (FG1, RM_X) twice
FileDup ==
    <<RawFormulaRow(Str(<<"F", "G", "1">>), Str(<<"R", "M", "X">>), Kg(30)),
      RawFormulaRow(Str(<<"F", "G", "1">>), Str(<<" ", "R", "M", "X">>), HalfKg(5))>>

\* a file with two rows of FG2 and a row without an FG code
File2 ==
    <<RawFormulaRow(Str(<<"F", "G", "2">>), Str(<<"R", "M", "Y">>), Kg(30)),
      RawFormulaRow(NaN, Str(<<"R", "M", "Y">>), Kg(30)),
      RawFormulaRow(Str(<<"F", "G", "2">>), Str(<<"R", "M", "X">>), Kg(30))>>

\* what the uploader of tab 2 can hold
UploaderOpts ==
    {<<>>, <<File1>>, <<FileDup>>, <<File2>>, <<FileDup, File2>>, <<File2, File1>>}

\* the selections the user can make
PickOpts == {<<>>, <<FG1>>, <<FG2>>, <<FG1, FG2>>, <<FG2, FG1>>}

\* a new session with stock loaded and transform rules at hand
InitSession ==
    /\ rm_stock = StockRow(RM_X, <<Kg(60)>>) \o StockRow(RM_Y, <<Kg(30)>>)
    /\ rm_po = <<>>
    /\ fg_formulas = <<>>
    /\ modified_fg_formulas = <<>>
    /\ fg_analysis_order = <<>>
    /\ fg_expected_capacity = EmptyDict
    /\ calculation_margin = DefaultDecimalPlaces
    /\ analysis_completed = FALSE
    /\ prod_date = 2
    /\ IdleRun
    /\ IdleNorm
    /\ rm_replacement_rules = <<ReplacementRule(RM_X, RM_Y)>>
    /\ rm_dilution_rules =
          <<DilutionRow(RM_Y, RM_X, Pct(50)), DilutionRow(RM_Y, RM_Y, Pct(50))>>
    /\ formulas_modified = FALSE
    /\ dilution_applied = FALSE
    /\ dilution_file = <<>>
    /\ invalid_rms = <<>>
    /\ formulas_to_dilute = <<>>
    /\ diluted_formulas = <<>>
    /\ dilutions = 0
    /\ IdleWidgets

NextSession ==
    \/ \E files \in UploaderOpts : SetUploader(files)
    \/ \E s \in PickOpts : PickFGs(s)
    \/ SelectAll
    \/ ClearAll
    \/ \E to_delete \in SUBSET {FG1, FG2} : DeleteFG(to_delete)
    \/ ApplyReplacement
    \/ ApplyDilution
    \/ (pc = "idle" /\ RunStart)
    \/ ProcessFG
    \/ RunFinish

SpecSession == InitSession /\ [][NextSession]_vars

----------------------------------------------------------------------------
(* A session with a selection and stock of the components: dilution files, *)
(* the dilution, and the analysis at every decimal precision               *)

\* the formula of FG1: 10 kg, 0.001 kg or 0.016 kg of RM_A, and optionally
\* half a kilogram of RM_B
DilutedTables ==
    {FormulaRow(FG1, RM_A, a) \o FormulaRow(FG1, RM_B, b) :
        a \in TransformQtyA \ {<<>>, <<0>>, <<-(Kg(1) \div 1000)>>},
        b \in {<<>>, <<HalfKg(1)>>}}

InitDiluted ==
    /\ rm_stock = StockRow(RM_A, <<Kg(30)>>) \o StockRow(RM_B, <<Kg(1)>>)
                     \o StockRow(RM_C, <<Kg(30)>>)
    /\ rm_po = <<>>
    /\ fg_formulas \in DilutedTables
    /\ modified_fg_formulas = <<>>
    /\ fg_analysis_order = <<FG1>>
    /\ fg_expected_capacity \in {EmptyDict, [k \in {FG1} |-> Kg(BatchKg)]}
    /\ calculation_margin \in 0..MaxDecimalPlaces
    /\ analysis_completed = TRUE
    /\ prod_date = 2
    /\ IdleRun
    /\ IdleNorm
    /\ IdleRules
    /\ formulas_modified = FALSE
    /\ IdleWidgets

NextDiluted ==
    \/ \E file \in DilutionFiles : UploadDilution(file)
    \/ ApplyDilution
    \/ (pc = "idle" /\ RunStart)
    \/ ProcessFG
    \/ RunFinish

SpecDiluted == InitDiluted /\ [][NextDiluted]_vars

----------------------------------------------------------------------------
(* Helpers of the properties *)

\* the formula rows the run uses for an FG
FormulaOf(fg) == RowsOf(FormulasToUse, fg)

\* the initial loop state of a run over a stock dict
FreshLoop(stock) == LoopState(stock, <<>>, EmptyDict, NoIter)

\* the FIFO loop of the session, run over another order
RunOver(order) ==
    RunLoop(order, FormulasToUse, fg_expected_capacity, calculation_margin,
            StockDict, FreshLoop(StockDict))

\* what the results so far took of an RM: for every Ready result, the
\* rounded product of the row's quantity and the result's batches
RECURSIVE ConsumedRows(_, _, _)
ConsumedRows(formula, rm, batches) ==
    IF formula = <<>> THEN 0
    ELSE (IF Head(formula).rm = rm
          THEN PyRound(Head(formula).qty * batches, calculation_margin) ELSE 0)
         + ConsumedRows(Tail(formula), rm, batches)

RECURSIVE Consumed(_, _)
Consumed(res, rm) ==
    IF res = <<>> THEN 0
    ELSE (IF Head(res).Status = "Ready"
          THEN ConsumedRows(FormulaOf(Head(res).FG), rm, Head(res).Batches) ELSE 0)
         + Consumed(Tail(res), rm)

HasLineFor(lines, rm) == \E i \in 1..Len(lines) : lines[i].rm = rm

OnlyRow(fg, rm, qty) == FormulaOf(fg) = <<[fg |-> fg, rm |-> rm, qty |-> qty]>>

----------------------------------------------------------------------------
(* C1: allocation is sequential in FIFO order against one shared pool     *)

\* the scenario of the claim: both FGs need 30 kg of RM_X per batch, the
\* stock of RM_X is 30 kg, the order is FG1, FG2, and the run has finished
C1_Scenario ==
    /\ pc = "done"
    /\ fg_analysis_order = <<FG1, FG2>>
    /\ OnlyRow(FG1, RM_X, Kg(30))
    /\ OnlyRow(FG2, RM_X, Kg(30))
    /\ Get(initial_stock, RM_X, 0) = Kg(30)

\* C1: the pool every FG finds is the initial stock less what the Ready FGs
\* before it in the order consumed, so that stock is not available to any
\* later FG. With order FG1, FG2, both needing 30 of RM_X per batch and 30 of
\* RM_X in stock, FG1 gets 1 batch (25 kg), RM_X ends at 0 and FG2 gets 0
\* batches, Shortage, with a shortage line for RM_X; the same loop run over
\* the order FG2, FG1 on the same stock swaps the two outcomes.
C1_FifoSharedPool ==
    /\ pc \in {"loop", "done"} =>
          /\ \A rm \in DOMAIN allocated_stock :
                allocated_stock[rm] = initial_stock[rm] - Consumed(results, rm)
          /\ (iter.fg # <<>> =>
                \A rm \in DOMAIN allocated_stock :
                   iter.stock_before[rm] =
                      initial_stock[rm]
                         - Consumed(SubSeq(results, 1, Len(results) - 1), rm))
    /\ C1_Scenario =>
          /\ Len(results) = 2
          /\ results[1].FG = FG1 /\ results[1].Batches = 1
          /\ results[1].Actual = BatchKg /\ results[1].Status = "Ready"
          /\ allocated_stock[RM_X] = 0
          /\ results[2].FG = FG2 /\ results[2].Batches = 0
          /\ results[2].Actual = 0 /\ results[2].Status = "Shortage"
          /\ HasLineFor(shortage_details[FG2], RM_X)
          /\ LET rev == RunOver(<<FG2, FG1>>)
             IN  /\ Len(rev.results) = 2
                 /\ rev.results[1].FG = FG2 /\ rev.results[1].Batches = 1
                 /\ rev.results[1].Actual = BatchKg
                 /\ rev.results[1].Status = "Ready"
                 /\ rev.allocated[RM_X] = 0
                 /\ rev.results[2].FG = FG1 /\ rev.results[2].Batches = 0
                 /\ rev.results[2].Status = "Shortage"
                 /\ HasLineFor(rev.shortage_details[FG1], RM_X)

\* a finished run of the scenario in which FG1 took the only batch
C1_Witness ==
    /\ C1_Scenario
    /\ results[1].Status = "Ready"
    /\ results[2].Status = "Shortage"
    /\ iter.fg = FG2
    /\ iter.stock_before[RM_X] = 0

----------------------------------------------------------------------------
(* C2: max capacity is computed from the initial stock                     *)

\* the batches a formula row supports from a stock level
C2_RowBatches(row, level) ==
    LET req == PyRound(row.qty, calculation_margin)
    IN  IF req <= 0 \/ level <= 0 THEN 0 ELSE level \div req

\* 25 x the minimum over the rows of an FG, from the run's initial stock
C2_MaxFromInitial(fg) ==
    LET f == FormulaOf(fg)
    IN  BatchKg * SeqMin([i \in 1..Len(f) |->
                             C2_RowBatches(f[i], Get(initial_stock, f[i].rm, 0))])

----------------------------------------------------------------------------
(* C3: the allocated stock never goes negative                             *)

\* C3: with a stock snapshot of non-negative quantities only, allocated[rm]
\* is never negative for any RM after any prefix of the FIFO order.
C3_AllocatedNeverNegative ==
    (\A i \in 1..Len(rm_stock) : rm_stock[i].qty >= 0) =>
        \A rm \in DOMAIN allocated_stock : allocated_stock[rm] >= 0

----------------------------------------------------------------------------
(* C4: Ready iff at least one batch                                        *)

\* C4: every emitted result is Ready if and only if its actual capacity is at
\* least 25 kg, that is, it has at least one batch; otherwise it is Shortage.
C4_ReadyIffOneBatch ==
    \A i \in 1..Len(results) :
        /\ results[i].Status \in {"Ready", "Shortage"}
        /\ results[i].Status = "Ready" <=> results[i].Actual >= 25
        /\ results[i].Actual >= 25 <=> results[i].Batches >= 1
        /\ results[i].Status = "Shortage" <=> results[i].Batches < 1

\* a finished run with a Ready result of exactly one batch and a Shortage one
C4_Witness ==
    /\ pc = "done"
    /\ \E i \in 1..Len(results) :
          results[i].Status = "Ready" /\ results[i].Actual = 25
    /\ \E i \in 1..Len(results) :
          results[i].Status = "Shortage" /\ results[i].Actual = 0

----------------------------------------------------------------------------
(* C5: the target batch count of expected-capacity mode                    *)

\* every row of the iteration has stock for n batches
C5_Ample(n) ==
    \A i \in 1..Len(iter.formula) :
        LET req == PyRound(iter.formula[i].qty, iter.decimal_places)
        IN  req > 0 /\ Get(iter.stock_before, iter.formula[i].rm, 0) >= req * n

\* C5: with an expected capacity above 0 the target batch count is
\* max(1, floor(expected capacity / 25)): 40 kg gives 1 batch, not 2, and
\* every expected capacity below 25 kg gives 1; the FG gets exactly the
\* target when every row has the stock for it, and never more.
C5_TargetBatches ==
    (iter.fg # <<>> /\ iter.expected_capacity > 0) =>
        LET whole == iter.expected_capacity \div Kg(25)
            target == IF whole >= 1 THEN whole ELSE 1
        IN  /\ iter.expected_batches = target
            /\ (iter.expected_capacity = Kg(40) => iter.expected_batches = 1)
            /\ (iter.expected_capacity < Kg(25) => iter.expected_batches = 1)
            /\ iter.actual_batches <= target
            /\ (C5_Ample(target) => iter.actual_batches = target)

\* an expected capacity of 40 kg met by a stock that would carry 2 batches
C5_Witness ==
    /\ iter.fg # <<>>
    /\ iter.expected_capacity = Kg(40)
    /\ C5_Ample(2)
    /\ iter.actual_batches = 1
    /\ results[Len(results)].Batches = 1

----------------------------------------------------------------------------
(* C6: a zero or negative requirement                                      *)

C6_Invalid(it, i) == PyRound(it.formula[i].qty, it.decimal_places) <= 0

\* C6: a formula row whose quantity per batch, rounded to the precision, is
\* zero or negative supports 0 batches and puts an "Invalid requirement" line
\* for its RM into the FG's shortage breakdown, in auto and in expected-
\* capacity mode; the FG gets its result, with status Shortage, and the loop
\* goes on to the next position.
C6_InvalidRequirement ==
    iter.fg # <<>> =>
        \A i \in 1..Len(iter.formula) :
            C6_Invalid(iter, i) =>
                /\ iter.possible_batches[i] = 0
                /\ \E k \in 1..Len(iter.shortage_breakdown) :
                      /\ iter.shortage_breakdown[k].rm = iter.formula[i].rm
                      /\ iter.shortage_breakdown[k].kind = "Invalid requirement"
                /\ iter.actual_batches = 0
                /\ iter.status = "Shortage"
                /\ results[Len(results)].FG = iter.fg
                /\ results[Len(results)].Status = "Shortage"
                /\ shortage_details[iter.fg] = iter.shortage_breakdown
                /\ pc \in {"loop", "done"}
                /\ \E k \in 1..(fg_pos - 1) : fg_analysis_order[k] = iter.fg

\* an auto-mode FG with a row of 0.5 kg per batch that the precision 0 rounds
\* to 0, for an RM that is not in stock, and the FG after it was processed
C6_Witness ==
    /\ pc = "done"
    /\ Len(results) = 2
    /\ calculation_margin = 0
    /\ Get(fg_expected_capacity, FG1, 0) = 0
    /\ \E i \in 1..Len(FormulaOf(FG1)) :
          /\ FormulaOf(FG1)[i].qty = HalfKg(1)
          /\ FormulaOf(FG1)[i].rm \notin DOMAIN initial_stock
    /\ results[1].Status = "Shortage"
    /\ \E k \in 1..Len(shortage_details[FG1]) :
          shortage_details[FG1][k].kind = "Invalid requirement"

----------------------------------------------------------------------------
(* C7: an RM without a stock entry                                         *)

\* the FGs of the order that have formula rows, in order
C7_Processed == SelectSeq(fg_analysis_order, LAMBDA fg : FormulaOf(fg) # <<>>)

\* C7: an RM of an FG's formula that has no entry in the stock snapshot
\* counts as 0 available: the row supports 0 batches in the max and in the
\* actual pass, the FG is Shortage with a line for that RM, and when the run
\* is done every FG of the order that has formula rows has its result.
C7_MissingStockIsZero ==
    /\ iter.fg # <<>> =>
          \A i \in 1..Len(iter.formula) :
              iter.formula[i].rm \notin DOMAIN initial_stock =>
                  /\ iter.max_possible_batches = 0
                  /\ iter.max_capacity = 0
                  /\ iter.possible_batches[i] = 0
                  /\ iter.status = "Shortage"
                  /\ HasLineFor(iter.shortage_breakdown, iter.formula[i].rm)
                  /\ results[Len(results)].FG = iter.fg
                  /\ results[Len(results)].Max = 0
                  /\ results[Len(results)].Status = "Shortage"
    /\ pc = "done" =>
          /\ Len(results) = Len(C7_Processed)
          /\ \A i \in 1..Len(results) : results[i].FG = C7_Processed[i]

\* a finished run whose first FG needs an RM that is not in the stock table
\* and whose second FG is Ready
C7_Witness ==
    /\ pc = "done"
    /\ Len(results) = 2
    /\ \E i \in 1..Len(FormulaOf(FG1)) :
          /\ FormulaOf(FG1)[i].rm \notin DOMAIN initial_stock
          /\ FormulaOf(FG1)[i].qty > 0
    /\ results[1].Status = "Shortage"
    /\ results[1].Max = 0
    /\ results[2].Status = "Ready"

----------------------------------------------------------------------------
(* C8: an analysis repeated on the same session gives the same results     *)

\* C8: two analyses of identical session inputs (stock, formulas, FIFO order,
\* expected capacities, decimal places, PO table and production date) give
\* identical result lists and shortage ledgers, and while an analysis
\* depletes its pool the session stock table still is what the analysis
\* started from.
C8_RerunSameResults ==
    /\ \A i, j \in 1..Len(history) :
          (/\ history[i].inputs = history[j].inputs
           /\ history[i].rm_po = history[j].rm_po
           /\ history[i].prod_date = history[j].prod_date)
          => /\ history[i].results = history[j].results
             /\ history[i].shortage_details = history[j].shortage_details
    /\ pc = "loop" => StockDict = initial_stock

\* two analyses of the same inputs, the first of which depleted its pool
C8_Witness ==
    /\ Len(history) = 2
    /\ history[1].inputs = history[2].inputs
    /\ history[1].rm_po = history[2].rm_po
    /\ \E i \in 1..Len(history[1].results) : history[1].results[i].Status = "Ready"
    /\ history[1].allocated_stock # initial_stock
    /\ history[2].results = history[1].results

----------------------------------------------------------------------------
(* C9: the PO table does not affect the allocation                          *)

\* C9: two analyses that differ in their PO tables only give the same max
\* capacity, actual capacity, batch count, status and shortage breakdown for
\* every FG and the same final allocated stock; the pool an analysis starts
\* from holds the rounded quantities of the stock table and no PO quantity.
C9_IndependentOfPO ==
    /\ \A i, j \in 1..Len(history) :
          history[i].inputs = history[j].inputs
          => /\ history[i].results = history[j].results
             /\ history[i].shortage_details = history[j].shortage_details
             /\ history[i].allocated_stock = history[j].allocated_stock
    /\ pc \in {"loop", "done"} =>
          /\ DOMAIN initial_stock = {rm_stock[i].rm : i \in 1..Len(rm_stock)}
          /\ \A i \in 1..Len(rm_stock) :
                initial_stock[rm_stock[i].rm] =
                    PyRound(rm_stock[i].qty, calculation_margin)

\* two analyses that differ in the PO table: a line that arrived before the
\* production date is there in one of them only, and the results are equal
C9_Witness ==
    /\ Len(history) = 2
    /\ history[1].inputs = history[2].inputs
    /\ history[1].rm_po # history[2].rm_po
    /\ history[1].delayed_pos # history[2].delayed_pos
    /\ \E i \in 1..Len(history[1].results) : history[1].results[i].Status = "Ready"
    /\ history[1].results = history[2].results

----------------------------------------------------------------------------
(* C10: the normalizer applied to its own result                           *)

\* C10: code normalization is idempotent: for every raw value, a string, a
\* number or NaN, normalizing the normalized code returns it unchanged.
C10_NormalizerIdempotent ==
    passes = 2 => codes[2] = codes[1]

----------------------------------------------------------------------------
(* C11: padding and truncation of a code                                   *)

----------------------------------------------------------------------------
(* C12: the empty input                                                    *)

\* C12: normalizing an empty input returns the empty string: NaN and the
\* empty string "" both normalize to "", so no empty input is turned into a
\* non-empty code.
C12_EmptyGivesEmpty ==
    (passes >= 1 /\ (raw_code.kind = "nan" \/ raw_code.s = <<>>)) =>
        codes[1] = <<>>

----------------------------------------------------------------------------
(* C18: the frame of the depletion step                                    *)

\* the RM codes of the rows of a formula
C18_RmsOf(formula) == {formula[i].rm : i \in 1..Len(formula)}

\* C18: inside the FIFO loop, processing one FG changes allocated[rm] only
\* for RM codes that occur in that FG's formula rows and only when the FG is
\* Ready with at least one batch; a Shortage FG changes nothing; and the
\* initial stock map is never changed.
C18_DepletionFrame ==
    [][pc = "loop" =>
          /\ initial_stock' = initial_stock
          /\ DOMAIN allocated_stock' = DOMAIN allocated_stock
          /\ \A rm \in DOMAIN allocated_stock :
                allocated_stock'[rm] # allocated_stock[rm] =>
                    /\ fg_pos <= Len(fg_analysis_order)
                    /\ rm \in C18_RmsOf(FormulaOf(fg_analysis_order[fg_pos]))
                    /\ Len(results') = Len(results) + 1
                    /\ results'[Len(results')].FG = fg_analysis_order[fg_pos]
                    /\ results'[Len(results')].Status = "Ready"
                    /\ results'[Len(results')].Batches > 0
          /\ (/\ Len(results') = Len(results) + 1
              /\ results'[Len(results')].Status = "Shortage")
                => /\ results'[Len(results')].Batches = 0
                   /\ allocated_stock' = allocated_stock]_vars

\* a finished run whose first FG was Ready and depleted an RM while an RM
\* that only the second FG, a Shortage one, uses still has its initial stock
C18_Witness ==
    /\ pc = "done"
    /\ Len(results) = 2
    /\ results[1].Status = "Ready"
    /\ results[2].Status = "Shortage"
    /\ \E rm \in DOMAIN allocated_stock : allocated_stock[rm] < initial_stock[rm]
    /\ \E rm \in DOMAIN allocated_stock :
          /\ rm \notin C18_RmsOf(FormulaOf(results[1].FG))
          /\ rm \in C18_RmsOf(FormulaOf(results[2].FG))
          /\ initial_stock[rm] > 0
          /\ allocated_stock[rm] = initial_stock[rm]

----------------------------------------------------------------------------
(* C19: the actual batches of an FG                                        *)

\* the batches a row of the iteration supports from the pool it found
C19_RowSupport(it, i) ==
    LET req == PyRound(it.formula[i].qty, it.decimal_places)
        avail == Get(it.stock_before, it.formula[i].rm, 0)
        target == Max2(1, it.expected_capacity \div Kg(25))
    IN  IF req <= 0 \/ avail <= 0 THEN 0
        ELSE IF it.expected_capacity > 0 /\ avail >= req * target THEN target
        ELSE avail \div req

----------------------------------------------------------------------------
(* C20: the result list follows the FIFO order                             *)

\* the FGs among the first n of the order that have rows in the table the
\* run consumes, in order
C20_Emitted(n) ==
    SelectSeq(SubSeq(fg_analysis_order, 1, n), LAMBDA fg : FormulaOf(fg) # <<>>)

\* C20: the result list holds exactly the FG codes of the FIFO order that
\* have at least one row in the formula table the run consumes, each once
\* and in FIFO order, and so does the shortage ledger; an FG with no formula
\* rows emits no result and no ledger entry and leaves the pool unchanged.
C20_ResultsFollowOrder ==
    /\ [](pc \in {"loop", "done"} =>
             /\ Len(results) = Len(C20_Emitted(fg_pos - 1))
             /\ \A i \in 1..Len(results) : results[i].FG = C20_Emitted(fg_pos - 1)[i]
             /\ \A i, j \in 1..Len(results) :
                   results[i].FG = results[j].FG => i = j
             /\ DOMAIN shortage_details = {results[i].FG : i \in 1..Len(results)})
    /\ [][(/\ pc = "loop"
           /\ fg_pos <= Len(fg_analysis_order)
           /\ FormulaOf(fg_analysis_order[fg_pos]) = <<>>)
             => UNCHANGED <<results, shortage_details, allocated_stock>>]_vars

\* a finished run over FG1, FG2 in which the consumed table has no row of
\* FG2: one result, for FG1, and a ledger without FG2
C20_Witness ==
    /\ pc = "done"
    /\ fg_analysis_order = <<FG1, FG2>>
    /\ FormulaOf(FG1) # <<>>
    /\ FormulaOf(FG2) = <<>>
    /\ Len(results) = 1
    /\ results[1].FG = FG1
    /\ FG2 \notin DOMAIN shortage_details

----------------------------------------------------------------------------
(* C13: the replacement renames and merges *)

\* the code an RM code maps to under the session's replacement rules: the new
\* code of the last rule for it, the code itself when no rule names it
C13_Target(rm) ==
    IF \E k \in DOMAIN rm_replacement_rules : rm_replacement_rules[k].old = rm
    THEN rm_replacement_rules[
             CHOOSE k \in DOMAIN rm_replacement_rules :
                /\ rm_replacement_rules[k].old = rm
                /\ \A m \in DOMAIN rm_replacement_rules :
                      rm_replacement_rules[m].old = rm => m <= k].new
    ELSE rm

\* the quantities of the first n formula rows of an FG whose RM maps to rm
RECURSIVE C13_SumTo(_, _, _)
C13_SumTo(n, fg, rm) ==
    IF n = 0 THEN 0
    ELSE (IF fg_formulas[n].fg = fg /\ C13_Target(fg_formulas[n].rm) = rm
          THEN fg_formulas[n].qty ELSE 0)
         + C13_SumTo(n - 1, fg, rm)

\* the total quantity of the first n rows of a table for an FG
RECURSIVE C13_Total(_, _, _)
C13_Total(table, n, fg) ==
    IF n = 0 THEN 0
    ELSE (IF table[n].fg = fg THEN table[n].qty ELSE 0) + C13_Total(table, n - 1, fg)

\* C13: after Apply Replacement the modified table holds each (FG, RM) pair at
\* most once, with the sum of the quantities of the formula rows of that FG
\* whose RM maps to that RM; every formula row is accounted for, so the total
\* of each FG is kept; (FG1, RM_A, 10) and (FG1, RM_B, 5) with the rule
\* RM_A -> RM_B give the single row (FG1, RM_B, 15)
C13_RenamesAndMerges ==
    (formulas_modified /\ ~dilution_applied) =>
        /\ \A i, j \in DOMAIN modified_fg_formulas :
              (/\ modified_fg_formulas[i].fg = modified_fg_formulas[j].fg
               /\ modified_fg_formulas[i].rm = modified_fg_formulas[j].rm) => i = j
        /\ \A i \in DOMAIN modified_fg_formulas :
              modified_fg_formulas[i].qty =
                 C13_SumTo(Len(fg_formulas), modified_fg_formulas[i].fg,
                           modified_fg_formulas[i].rm)
        /\ \A i \in DOMAIN fg_formulas :
              \E j \in DOMAIN modified_fg_formulas :
                 /\ modified_fg_formulas[j].fg = fg_formulas[i].fg
                 /\ modified_fg_formulas[j].rm = C13_Target(fg_formulas[i].rm)
        /\ \A fg \in {FG1, FG2} :
              C13_Total(modified_fg_formulas, Len(modified_fg_formulas), fg)
                 = C13_Total(fg_formulas, Len(fg_formulas), fg)
        /\ (/\ fg_formulas = <<[fg |-> FG1, rm |-> RM_A, qty |-> Kg(10)],
                               [fg |-> FG1, rm |-> RM_B, qty |-> Kg(5)]>>
            /\ rm_replacement_rules = <<ReplacementRule(RM_A, RM_B)>>)
           => modified_fg_formulas = <<[fg |-> FG1, rm |-> RM_B, qty |-> Kg(15)]>>

----------------------------------------------------------------------------
(* C14: the floor of the dilution *)

\* 100 percent of 0.0001 kg, in ticks times percentage units
C14_Unit == 100 * PctScale * FloorQty

\* |quantity * percentage / 100| < 0.00005, for a positive percentage
C14_Below(quantity, percentage) ==
    Abs(quantity) <= (C14_Unit \div 2 - 1) \div percentage

\* c * 0.0001 is quantity * percentage / 100 rounded to 4 decimal places
C14_Rounds(c, quantity, percentage) ==
    /\ c \in {MulDivQuot(quantity, percentage, C14_Unit),
              MulDivQuot(quantity, percentage, C14_Unit) + 1}
    /\ 2 * MulDivRem(quantity, percentage, C14_Unit) < C14_Unit
          => c = MulDivQuot(quantity, percentage, C14_Unit)
    /\ 2 * MulDivRem(quantity, percentage, C14_Unit) > C14_Unit
          => c = MulDivQuot(quantity, percentage, C14_Unit) + 1
    /\ 2 * MulDivRem(quantity, percentage, C14_Unit) = C14_Unit => c % 2 = 0

\* the quantity the claim gives a component row
C14_Quantity(qty, quantity, percentage) ==
    IF C14_Below(quantity, percentage)
    THEN qty = FloorQty
    ELSE /\ qty % FloorQty = 0
         /\ C14_Rounds(qty \div FloorQty, quantity, percentage)

\* the rules of the RM of a formula row, its code read as the transform
\* reads it
C14_RulesOf(rules, row) ==
    SelectSeq(rules, LAMBDA r : r.rm = preserve_8char_code(Str(row.rm)))

\* the component rows of a formula row are as the claim says
C14_RowDiluted(rows, row, components) ==
    /\ Len(rows) = Len(components)
    /\ \A k \in DOMAIN components :
          /\ rows[k].fg = row.fg
          /\ rows[k].rm = components[k].component
          /\ C14_Quantity(rows[k].qty, row.qty, components[k].pct)
          /\ (row.qty = Kg(1) \div 1000 /\ components[k].pct = Pct(1))
                => rows[k].qty = FloorQty /\ rows[k].qty # 0

\* the rows of diluted_formulas that come from the first n formula rows
RECURSIVE C14_Offset(_, _, _)
C14_Offset(rules, formulas, n) ==
    IF n = 0 THEN 0
    ELSE C14_Offset(rules, formulas, n - 1)
         + (IF C14_RulesOf(rules, formulas[n]) = <<>> THEN 1
            ELSE Len(C14_RulesOf(rules, formulas[n])))

\* C14: a dilution turns every formula row whose RM has rules into one
\* component row per rule; the quantity of a component row is exactly 0.0001
\* when quantity x percentage / 100 is below 0.00005 in absolute value (an
\* exact 0 and small negative values included; 0.001 at 1% gives 0.0001, not
\* 0.0000), and the value rounded to 4 decimal places otherwise
C14_DilutionFloor ==
    [][dilutions' = dilutions + 1 =>
          \A n \in DOMAIN formulas_to_dilute' :
             C14_RulesOf(rm_dilution_rules, formulas_to_dilute'[n]) # <<>> =>
                C14_RowDiluted(
                    SubSeq(diluted_formulas',
                           C14_Offset(rm_dilution_rules, formulas_to_dilute', n - 1) + 1,
                           C14_Offset(rm_dilution_rules, formulas_to_dilute', n)),
                    formulas_to_dilute'[n],
                    C14_RulesOf(rm_dilution_rules, formulas_to_dilute'[n]))]_vars

\* a dilution has floored the 1% share of 0.001 kg and has rounded the 99%
\* share of it to 0.0010
C14_Witness ==
    /\ dilution_applied
    /\ formulas_to_dilute # <<>>
    /\ formulas_to_dilute[1] = [fg |-> FG1, rm |-> RM_A, qty |-> Kg(1) \div 1000]
    /\ Len(diluted_formulas) >= 2
    /\ diluted_formulas[1] = [fg |-> FG1, rm |-> RM_B, qty |-> FloorQty]
    /\ diluted_formulas[2] = [fg |-> FG1, rm |-> RM_C, qty |-> 10 * FloorQty]

----------------------------------------------------------------------------
(* C15: the warning about percentages that do not sum to 100 *)

\* the percentages of the stored rules of an RM, summed over the first n rules
RECURSIVE C15_Sum(_, _)
C15_Sum(n, rm) ==
    IF n = 0 THEN 0
    ELSE (IF rm_dilution_rules[n].rm = rm THEN rm_dilution_rules[n].pct ELSE 0)
         + C15_Sum(n - 1, rm)

\* the sum of an RM's percentages is more than 0.01 away from 100
C15_OffBy(rm) ==
    \/ 100 * (C15_Sum(Len(rm_dilution_rules), rm) - Pct(100)) > PctScale
    \/ 100 * (Pct(100) - C15_Sum(Len(rm_dilution_rules), rm)) > PctScale

\* the components of the rules of an RM
C15_Components(rm) ==
    {rm_dilution_rules[k].component :
        k \in {m \in DOMAIN rm_dilution_rules : rm_dilution_rules[m].rm = rm}}

\* C15: when the file in the dilution uploader has valid rules they are the
\* stored rules, and the warning names an RM exactly when it has rules whose
\* percentages sum to more than 0.01 above or below 100; a warned RM is
\* diluted like any other: Apply Dilution replaces its rows by rows of its
\* components
C15_WarningOnly ==
    /\ [](ProcessedDilution(dilution_file) # <<>> =>
             /\ rm_dilution_rules = ProcessedDilution(dilution_file)
             /\ \A rm \in {RM_A, RM_B, RM_C} :
                   (\E k \in DOMAIN invalid_rms : invalid_rms[k] = rm)
                      <=> (C15_Components(rm) # {} /\ C15_OffBy(rm)))
    /\ [](ProcessedDilution(dilution_file) = <<>> => invalid_rms = <<>>)
    /\ [][(dilutions' = dilutions + 1 /\ invalid_rms # <<>>
           /\ ProcessedDilution(dilution_file) # <<>>) =>
             \A n \in DOMAIN formulas_to_dilute' :
                \A k \in DOMAIN invalid_rms :
                   formulas_to_dilute'[n].rm = invalid_rms[k] =>
                      \A component \in C15_Components(invalid_rms[k]) :
                         \E j \in DOMAIN modified_fg_formulas' :
                            /\ modified_fg_formulas'[j].fg = formulas_to_dilute'[n].fg
                            /\ modified_fg_formulas'[j].rm = component]_vars

\* rules whose percentages sum to 100 - 2^-6 were stored with a warning and
\* have diluted a row of RM_A
C15_Witness ==
    /\ dilution_applied
    /\ invalid_rms = <<RM_A>>
    /\ rm_dilution_rules = ProcessedDilution(dilution_file)
    /\ C15_Sum(Len(rm_dilution_rules), RM_A) = Pct(100) - PctFraction(6)
    /\ \E n \in DOMAIN formulas_to_dilute : formulas_to_dilute[n].rm = RM_A
    /\ \E j \in DOMAIN modified_fg_formulas : modified_fg_formulas[j].rm = RM_C
    /\ \A j \in DOMAIN modified_fg_formulas : modified_fg_formulas[j].rm # RM_A

----------------------------------------------------------------------------
(* C16: one row per (FG, RM) pair in the table the allocation consumes *)

\* C16: whatever files were uploaded, FGs deleted and transforms applied, the
\* formula table an analysis consumes holds at most one row per (FG code,
\* RM code) pair
C16_OneRowPerPair ==
    pc \in {"loop", "done"} =>
        \A i, j \in DOMAIN FormulasToUse :
           (/\ FormulasToUse[i].fg = FormulasToUse[j].fg
            /\ FormulasToUse[i].rm = FormulasToUse[j].rm) => i = j

----------------------------------------------------------------------------
(* C17: the FIFO order is the sorted selection *)

\* the FGs selected when the last script run ended: what the multiselect
\* returned, less what the run deleted
C17_Selected ==
    IF tab2_run.cleared THEN {}
    ELSE Range(tab2_run.selected_fgs) \ tab2_run.to_delete

\* the first FG of the order that has formula rows
C17_FirstWithRows ==
    fg_analysis_order[
        CHOOSE k \in DOMAIN fg_analysis_order :
           /\ RowsOf(FormulasToUse, fg_analysis_order[k]) # <<>>
           /\ \A m \in 1..(k - 1) :
                 RowsOf(FormulasToUse, fg_analysis_order[m]) = <<>>]

----------------------------------------------------------------------------
(* C21: what a dilution makes of the formula rows *)

\* the rules whose RM code is the code of a formula row
C21_RulesOf(rules, row) == SelectSeq(rules, LAMBDA r : r.rm = row.rm)

\* what the first k rules of a row's RM give of a component: the component
\* quantity of C14 for every rule that names it
RECURSIVE C21_FromRules(_, _, _, _)
C21_FromRules(components, k, quantity, rm) ==
    IF k = 0 THEN 0
    ELSE (IF components[k].component = rm
          THEN ComponentQty(quantity, components[k].pct) ELSE 0)
         + C21_FromRules(components, k - 1, quantity, rm)

\* what a formula row gives to the row of an RM: its components' quantities
\* when its RM has rules, its own quantity when it has none and is that RM
C21_FromRow(rules, row, rm) ==
    IF C21_RulesOf(rules, row) # <<>>
    THEN C21_FromRules(C21_RulesOf(rules, row), Len(C21_RulesOf(rules, row)),
                       row.qty, rm)
    ELSE IF row.rm = rm THEN row.qty ELSE 0

\* what the first n formula rows give to the row of an (FG, RM) pair
RECURSIVE C21_Sum(_, _, _, _, _)
C21_Sum(rules, table, n, fg, rm) ==
    IF n = 0 THEN 0
    ELSE (IF table[n].fg = fg THEN C21_FromRow(rules, table[n], rm) ELSE 0)
         + C21_Sum(rules, table, n - 1, fg, rm)

\* the RM codes a formula row turns into
C21_CodesOf(rules, row) ==
    IF C21_RulesOf(rules, row) # <<>>
    THEN {C21_RulesOf(rules, row)[k].component : k \in DOMAIN C21_RulesOf(rules, row)}
    ELSE {row.rm}

\* C21: Apply Dilution replaces every formula row whose RM code has rules by
\* one row per rule with the rule's component code and the component quantity,
\* lets a row whose RM code has no rule pass through unchanged, and groups the
\* rows: each (FG, RM) pair occurs once, with the sum of all rows that
\* produced it
C21_ExpandsAndGroups ==
    [][dilutions' = dilutions + 1 =>
          /\ \A i, j \in DOMAIN modified_fg_formulas' :
                (/\ modified_fg_formulas'[i].fg = modified_fg_formulas'[j].fg
                 /\ modified_fg_formulas'[i].rm = modified_fg_formulas'[j].rm)
                   => i = j
          /\ \A j \in DOMAIN modified_fg_formulas' :
                modified_fg_formulas'[j].qty =
                   C21_Sum(rm_dilution_rules, formulas_to_dilute',
                           Len(formulas_to_dilute'), modified_fg_formulas'[j].fg,
                           modified_fg_formulas'[j].rm)
          /\ \A n \in DOMAIN formulas_to_dilute' :
                \A rm \in C21_CodesOf(rm_dilution_rules, formulas_to_dilute'[n]) :
                   \E j \in DOMAIN modified_fg_formulas' :
                      /\ modified_fg_formulas'[j].fg = formulas_to_dilute'[n].fg
                      /\ modified_fg_formulas'[j].rm = rm]_vars

----------------------------------------------------------------------------
(* C28: the replacement starts from the original formulas *)

\* C28: Apply Replacement leaves formulas_modified true, dilution_applied
\* false and the replacement of the original formulas in the modified table,
\* whatever dilution was applied before; the first dilution after it leaves
\* the dilution of the replacement of the original formulas
C28_ReplacementFromOriginal ==
    /\ []((formulas_modified /\ ~dilution_applied) =>
             modified_fg_formulas =
                apply_rm_replacement(fg_formulas, rm_replacement_rules))
    /\ [][(dilutions' < dilutions \/ (~formulas_modified /\ formulas_modified')) =>
             /\ formulas_modified' /\ ~dilution_applied'
             /\ modified_fg_formulas' =
                   apply_rm_replacement(fg_formulas, rm_replacement_rules)]_vars
    /\ [][(formulas_modified /\ ~dilution_applied /\ dilutions' = dilutions + 1) =>
             /\ formulas_modified' /\ dilution_applied'
             /\ modified_fg_formulas' =
                   apply_dilution_rules(
                       apply_rm_replacement(fg_formulas, rm_replacement_rules),
                       rm_dilution_rules)]_vars

\* a dilution after a replacement has left the dilution of the replaced
\* formulas, which is neither the replaced table nor the dilution of the
\* original one
C28_Witness ==
    /\ formulas_modified /\ dilution_applied
    /\ dilutions = 1
    /\ modified_fg_formulas =
          apply_dilution_rules(apply_rm_replacement(fg_formulas, rm_replacement_rules),
                               rm_dilution_rules)
    /\ modified_fg_formulas # apply_rm_replacement(fg_formulas, rm_replacement_rules)
    /\ modified_fg_formulas # apply_dilution_rules(fg_formulas, rm_dilution_rules)

----------------------------------------------------------------------------
(* C22: the summary metrics follow from the results *)

\* the sum of a field over the first n results
RECURSIVE C22_SumBatches(_)
C22_SumBatches(n) ==
    IF n = 0 THEN 0 ELSE results[n].Batches + C22_SumBatches(n - 1)

RECURSIVE C22_SumActual(_)
C22_SumActual(n) ==
    IF n = 0 THEN 0 ELSE results[n].Actual + C22_SumActual(n - 1)

\* C22: of a finished run the Ready count is the number of results with at
\* least one batch, the total batches are the sum of the results' batches,
\* and the total volume is the sum of their actual capacities, 25 kg a batch
C22_MetricsFromResults ==
    pc = "done" =>
        /\ Len(ReadyFgs(results))
              = Cardinality({n \in DOMAIN results : results[n].Batches >= 1})
        /\ TotalBatches(results) = C22_SumBatches(Len(results))
        /\ TotalVolume(results) = C22_SumActual(Len(results))
        /\ TotalVolume(results) = BatchKg * TotalBatches(results)

\* a run with a Ready FG of 1,000 kg or more and an FG in shortage
C22_Witness ==
    /\ pc = "done"
    /\ Len(results) = 2
    /\ \E n \in DOMAIN results : results[n].Actual >= 1000
    /\ \E n \in DOMAIN results : results[n].Batches = 0
    /\ Len(ReadyFgs(results)) = 1
    /\ TotalVolume(results) >= 1000

----------------------------------------------------------------------------
\* C25: for every emitted result, actual capacity <= max capacity: the max
\* pass divides the initial stock, the allocation pass works on an allocated
\* stock that is never above the initial one, in expected mode and in auto
\* mode, at every position of the FIFO order
C25_ActualWithinMax ==
    \A i \in 1..Len(results) : results[i].Actual <= results[i].Max

\* an expected-mode result whose stock is its requirement to the tick, and
\* which has more kilograms in Actual than in Max
C25_ActualAboveMax ==
    /\ pc = "done"
    /\ \E i \in 1..Len(results) :
          /\ results[i].Expected > 0
          /\ Kg(results[i].Actual) = results[i].Expected
          /\ results[i].Max < results[i].Actual

----------------------------------------------------------------------------
(* C29: a Shortage result has a breakdown                                  *)

\* row i of the iteration supports no batch and has put a line for its RM
\* into the breakdown
C29_ZeroRowWithLine(it, i) ==
    /\ it.possible_batches[i] = 0
    /\ \E k \in 1..Len(it.shortage_breakdown) :
          it.shortage_breakdown[k].rm = preserve_8char_code(Str(it.formula[i].rm))

\* C29: every result with status Shortage has a non-empty shortage breakdown
\* in the ledger, in auto and in expected-capacity mode: whenever an FG gets
\* 0 actual batches, at least one of its formula rows supports no batch and
\* has recorded a shortage or an invalid-requirement line for the FG.
C29_ShortageHasBreakdown ==
    /\ \A i \in 1..Len(results) :
          results[i].Status = "Shortage" =>
              /\ results[i].FG \in DOMAIN shortage_details
              /\ shortage_details[results[i].FG] # <<>>
    /\ (iter.fg # <<>> /\ iter.actual_batches = 0) =>
          \E i \in 1..Len(iter.formula) : C29_ZeroRowWithLine(iter, i)

\* a run with two Shortage results, the first in expected-capacity mode and
\* the second in auto mode, whose stock is positive but below one batch
C29_Witness ==
    /\ pc = "done"
    /\ Len(results) = 2
    /\ results[1].Status = "Shortage" /\ results[1].Expected > 0
    /\ results[2].Status = "Shortage" /\ results[2].Expected = 0
    /\ \E k \in 1..Len(shortage_details[results[1].FG]) :
          shortage_details[results[1].FG][k].kind = "Shortage"
    /\ \E k \in 1..Len(shortage_details[results[2].FG]) :
          shortage_details[results[2].FG][k].kind = "Shortage"

----------------------------------------------------------------------------
(* C26: the floored component in the allocation                            *)

\* the row is a component that the last dilution set to 0.0001 kg: a rule of
\* a formula row of its FG names its RM, and the share was below 0.00005
C26_FlooredRow(row) ==
    /\ row.qty = FloorQty
    /\ \E n \in DOMAIN formulas_to_dilute :
          /\ formulas_to_dilute[n].fg = row.fg
          /\ \E k \in DOMAIN C14_RulesOf(rm_dilution_rules, formulas_to_dilute[n]) :
                /\ C14_RulesOf(rm_dilution_rules, formulas_to_dilute[n])[k].component
                      = row.rm
                /\ C14_Below(formulas_to_dilute[n].qty,
                             C14_RulesOf(rm_dilution_rules,
                                         formulas_to_dilute[n])[k].pct)

\* C26: a component row whose quantity the dilution floor set to 0.0001 is a
\* valid positive requirement of the allocation at every decimal precision
\* 0..6: its rounded requirement is positive, no invalid-requirement line is
\* recorded for it, and with a kilogram of the component in stock the row
\* supports at least one batch.
C26_FlooredRowIsValid ==
    (iter.fg # <<>> /\ dilution_applied) =>
        \A i \in DOMAIN iter.formula :
            C26_FlooredRow(iter.formula[i]) =>
                /\ PyRound(iter.formula[i].qty, iter.decimal_places) > 0
                /\ \A k \in DOMAIN iter.shortage_breakdown :
                      iter.shortage_breakdown[k].rm = iter.formula[i].rm
                          => iter.shortage_breakdown[k].kind # "Invalid requirement"
                /\ Get(initial_stock, iter.formula[i].rm, 0) >= Kg(1)
                      => iter.possible_batches[i] >= 1

\* the analysis at the default precision has met the floored component of
\* RM_B with a kilogram of it in stock, and reports the FG as Shortage with
\* an invalid-requirement line for the component
C26_FlooredRowInvalid ==
    /\ pc = "done"
    /\ dilution_applied
    /\ iter.fg = FG1
    /\ iter.decimal_places = DefaultDecimalPlaces
    /\ \E i \in DOMAIN iter.formula :
          /\ C26_FlooredRow(iter.formula[i])
          /\ iter.formula[i].rm = RM_B
          /\ iter.possible_batches[i] = 0
    /\ Get(initial_stock, RM_B, 0) = Kg(1)
    /\ results[1].Status = "Shortage"
    /\ \E k \in DOMAIN shortage_details[FG1] :
          /\ shortage_details[FG1][k].rm = RM_B
          /\ shortage_details[FG1][k].kind = "Invalid requirement"

----------------------------------------------------------------------------
(* C24: the table a run consumes and the loaded formulas                   *)

\* the tables the transforms make of a formula table: the table itself, its
\* replacement, and up to MaxDilutions dilutions of either
RECURSIVE C24_Diluted(_, _)
C24_Diluted(table, n) ==
    IF n = 0 THEN {table}
    ELSE C24_Diluted(table, n - 1)
         \cup {apply_dilution_rules(d, rm_dilution_rules) :
                  d \in C24_Diluted(table, n - 1)}

C24_Derived(table) ==
    C24_Diluted(table, MaxDilutions)
        \cup C24_Diluted(apply_rm_replacement(table, rm_replacement_rules),
                         MaxDilutions)

\* every FG of the order with rows in the original table has rows in the
\* table the run consumes
C24_OrderCovered ==
    \A i \in DOMAIN fg_analysis_order :
        RowsOf(fg_formulas, fg_analysis_order[i]) # <<>>
            => RowsOf(FormulasToUse, fg_analysis_order[i]) # <<>>

\* the rows the run consumes for an FG of the order are what the transforms
\* make of the rows now loaded
C24_RowsCurrent ==
    \A i \in DOMAIN fg_analysis_order :
        \E d \in C24_Derived(fg_formulas) :
            RowsOf(FormulasToUse, fg_analysis_order[i])
                = RowsOf(d, fg_analysis_order[i])

\* C24: the formula table an allocation run consumes reflects the formulas
\* loaded at the time: after any sequence of uploads, FG deletions, Apply
\* Replacement Rules and Apply Dilution Rules, every FG of the FIFO order
\* that has rows in the original table has rows in the consumed table, and
\* the rows consumed for an FG are not those of an older transformed table.
C24_ConsumedReflectsLoaded ==
    pc \in {"loop", "done"} => (C24_OrderCovered /\ C24_RowsCurrent)

\* a finished run over an order of two FGs that has a result for the first
\* only: the second was uploaded after the transform
C24_StaleTable ==
    /\ pc = "done"
    /\ fg_analysis_order = <<FG1, FG2>>
    /\ modified_fg_formulas # <<>>
    /\ RowsOf(fg_formulas, FG2) # <<>>
    /\ RowsOf(modified_fg_formulas, FG2) = <<>>
    /\ Len(results) = 1
    /\ results[1].FG = FG1

----------------------------------------------------------------------------
(* C27: a new expected capacity and the run that stores it                 *)

\* the results of a run of the FIFO loop with the given expected capacities
C27_ResultsWith(expected) ==
    RunLoop(fg_analysis_order, FormulasToUse, expected, calculation_margin,
            StockDict, LoopState(StockDict, <<>>, EmptyDict, NoIter)).results

\* C27: the script run of a newly entered expected capacity computes its
\* results from the value stored before the run and stores the new value
\* after them; a run that follows allocates with the stored value, so the
\* new value first shows in the results of the next run.
C27_NewCapacityNextRun ==
    /\ [][fg_expected_capacity' # fg_expected_capacity =>
             /\ pc' = "done"
             /\ results' = C27_ResultsWith(fg_expected_capacity)
             /\ history'[Len(history')].inputs.fg_expected_capacity
                   = fg_expected_capacity]_vars
    /\ [][(pc = "loop" /\ pc' = "done") =>
             /\ fg_expected_capacity' = fg_expected_capacity
             /\ results' = C27_ResultsWith(fg_expected_capacity)]_vars

\* the run of a new expected capacity of 50 kg for the first FG has shown
\* the batches of auto mode for it, and the run after it shows 2
C27_Witness ==
    /\ pc = "done"
    /\ Len(history) = 2
    /\ history[1].inputs.fg_expected_capacity = EmptyDict
    /\ history[1].results[1].FG = FG1
    /\ history[1].results[1].Batches > 2
    /\ fg_expected_capacity = [k \in {FG1} |-> Kg(2 * BatchKg)]
    /\ history[2].inputs.fg_expected_capacity = [k \in {FG1} |-> Kg(2 * BatchKg)]
    /\ history[2].results[1].Batches = 2
    /\ results = history[2].results

----------------------------------------------------------------------------
(* C23: the composition of the usage ledger                                *)

\* the entry the claim gives a formula row of an FG with batches > 0
C23_Used(fg, row, batches) ==
    [FG |-> fg, RM |-> row.rm,
     Required |-> PyRound(row.qty, calculation_margin) * batches,
     Available |-> Get(initial_stock, row.rm, 0),
     Shortage |-> Max2(0, PyRound(row.qty, calculation_margin) * batches
                            - Get(initial_stock, row.rm, 0)),
     Batches |-> batches]

\* the 1-batch entry the claim gives a formula row of an FG with a breakdown
C23_Short(fg, row) ==
    [FG |-> fg, RM |-> row.rm,
     Required |-> PyRound(row.qty, calculation_margin),
     Available |-> Get(initial_stock, row.rm, 0),
     Shortage |-> Max2(0, PyRound(row.qty, calculation_margin)
                            - Get(initial_stock, row.rm, 0)),
     Batches |-> 0]

\* the fields of a ledger entry the claim speaks of
C23_Fields(e) ==
    [FG |-> e.FG, RM |-> e.RM, Required |-> e.Required,
     Available |-> e.Available, Shortage |-> e.Shortage, Batches |-> e.Batches]

\* the formula rows of an FG whose RM a line of its breakdown names
C23_NamedRows(fg) ==
    SelectSeq(FormulaOf(fg),
              LAMBDA row : \E k \in DOMAIN shortage_details[fg] :
                              shortage_details[fg][k].rm = row.rm)

\* the ledger of the claim: the entries of the producing FGs, then those of
\* the FGs with a breakdown
C23_Ledger ==
    Flatten([i \in 1..Len(results) |->
                IF results[i].Batches > 0
                THEN [j \in 1..Len(FormulaOf(results[i].FG)) |->
                         C23_Used(results[i].FG, FormulaOf(results[i].FG)[j],
                                  results[i].Batches)]
                ELSE <<>>])
    \o Flatten([i \in 1..Len(results) |->
                   IF shortage_details[results[i].FG] # <<>>
                   THEN [j \in 1..Len(C23_NamedRows(results[i].FG)) |->
                            C23_Short(results[i].FG, C23_NamedRows(results[i].FG)[j])]
                   ELSE <<>>])

\* C23: the usage ledger of a finished run has, for every FG with actual
\* batches > 0, one entry per formula row with required = quantity per batch
\* x batches, available = initial[rm] and shortage = max(0, required -
\* available), and for every FG with a non-empty shortage breakdown 1-batch
\* entries (Batches 0, required = quantity per batch, available =
\* initial[rm]) for the RMs its breakdown names, and nothing else: an FG
\* with 0 batches and an empty breakdown has no entry.
C23_LedgerComposition ==
    pc = "done" =>
        [i \in DOMAIN rm_analysis_data |-> C23_Fields(rm_analysis_data[i])]
            = C23_Ledger

\* a finished run whose FG has a breakdown that names RM_B0000, a formula
\* row of that RM, and no entry in the ledger
C23_NamedRmMissing ==
    /\ pc = "done"
    /\ Len(results) = 1
    /\ results[1].Status = "Shortage"
    /\ \E k \in DOMAIN shortage_details[FG1] : shortage_details[FG1][k].rm = RM_B
    /\ \E j \in DOMAIN FormulaOf(FG1) : FormulaOf(FG1)[j].rm = RM_B
    /\ rm_analysis_data = <<>>

----------------------------------------------------------------------------
(* C30: building the RM Analysis sheet                                     *)

\* C30: for every finished run with at least one result the RM Analysis
\* ledger of the detailed report is built without an error, runs included in
\* which every FG is Ready and no FG has a shortage breakdown, so that no
\* ledger entry has a 'Status' field.
C30_LedgerBuilds ==
    (pc = "done" /\ results # <<>>) => ~RmAnalysisRaises(rm_analysis_data)

\* a finished run whose FGs are all Ready without a breakdown: the ledger
\* has their entries, none with a 'Status' field, and the column selection
\* raises
C30_AllReadyRaises ==
    /\ pc = "done"
    /\ results # <<>>
    /\ \A i \in DOMAIN results :
          /\ results[i].Status = "Ready"
          /\ shortage_details[results[i].FG] = <<>>
    /\ rm_analysis_data # <<>>
    /\ RmAnalysisRaises(rm_analysis_data)

=============================================================================
